---- MODULE Spec2Model ----
(***************************************************************************)
(* A model of the cost-aware naming pipeline of ai-file-naming:            *)
(*   - AIProvider.handleError / OpenAIProvider.transformError              *)
(*     (failure classification),                                           *)
(*   - AIProvider.executeWithRetry (retry loop with backoff),              *)
(*   - SmartPipeline.processFile / processBatch with BatchGrouper.group,   *)
(*   - FileNamingSDK.nameFile (result cache) and nameBatch (worker queue). *)
(*                                                                         *)
(* Each part has its own variables and its own specification; the          *)
(* variables of the other parts stay parked at their initial value.        *)
(*                                                                         *)
(* Strings that the code inspects with String.includes are sequences of    *)
(* case-sensitive words, and includes is "is a contiguous run of words".   *)
(* Confidences are integers in units of 1/10000 (0.7 is 7000).             *)
(***************************************************************************)
EXTENDS Integers, Sequences, FiniteSets, TLC

VARIABLES
  \* ---- failure classification (transformError, handleError)
  cin,        \* the raw failure handed to the provider layer, or NoFailure
  cerr,       \* the Error executeRequest throws for it, or NoTransformed
  cout,       \* its classification (a NamingError), or NoError
  \* ---- executeWithRetry
  maxRetries, \* the maxRetries argument
  attempt,    \* the local variable attempt
  rpc,        \* "calling" | "sleeping" | "returned" | "thrown"
  fnCalls,    \* the errors fn() has thrown so far, in order (one per call)
  fnOk,       \* number of calls of fn() that returned
  sleeps,     \* [base, total] of every sleep so far, in order
  thrown,     \* the error executeWithRetry threw, or NoThrown
  \* ---- SmartPipeline.processBatch / processFile
  pcfg,       \* this.config of the pipeline
  pfiles,     \* the argument files of processBatch
  pstat,      \* the file system: per file, whether fs.stat succeeds, and its bucket
  ppc,        \* "start" | "loop" | "done" | "rejected"
  pgroups,    \* groups, as returned by batchGrouper.group
  pgi,        \* index of the group the for loop is at
  psi,        \* index of the sibling the else-branch loop is at (0: representative next)
  presults,   \* results
  pcalls,     \* per file, the number of provider.generateName calls made for it
  pruns,      \* per file, the number of processFile runs on it
  plast,      \* the last processFile run: its inputs and what it delivered
  \* ---- FileNamingSDK.nameFile and its cache
  ccfg,       \* config.cache: enabled, ttl, maxSize
  now,        \* the clock
  disk,       \* per file on disk, its bytes and its modify-time
  cache,      \* this.cache: entries [key, value, start], least recently used first
  ncalls,     \* number of nameFile calls so far
  last,       \* the last nameFile call: its inputs and how it settled, or NoCall
  disposed,   \* the key of the entry the last nameFile call evicted, or NoKey
  \* ---- FileNamingSDK.nameBatch
  bopts,      \* the options argument
  bfiles,     \* fileList
  btask,      \* per file, its task: "queued" | "running" | how its nameFile settled
  bresults,   \* results
  berrors,    \* errors
  bprocessed, \* processed
  brejected,  \* whether a task has rejected, and with it Promise.all(tasks)
  bpc,        \* "running" | "returned"
  bret,       \* the totals of the returned BatchNamingResult
  \* ---- concurrent nameFile calls: controllers, provider retries and metrics
  fmax,       \* config.maxRetries of the provider
  freq,       \* per nameFile call: where it is, attempts started, controller aborted
  fctl,       \* this.abortControllers: the calls whose controller is tracked
  fmetrics,   \* this.metrics of the provider
  fcount,     \* what cancelAllRequests() returned, when the last step was that call
  \* ---- calls of pure functions
  ecall,      \* the function called and its arguments
  eret        \* what it returned, or NoReturn

classifyVars == <<cin, cerr, cout>>
retryVars == <<maxRetries, attempt, rpc, fnCalls, fnOk, sleeps, thrown>>
pipeVars == <<pcfg, pfiles, pstat, ppc, pgroups, pgi, psi, presults, pcalls, pruns, plast>>
cacheVars == <<ccfg, now, disk, cache, ncalls, last, disposed>>
batchVars == <<bopts, bfiles, btask, bresults, berrors, bprocessed, brejected, bpc, bret>>
flightVars == <<fmax, freq, fctl, fmetrics, fcount>>
evalVars == <<ecall, eret>>
vars == <<cin, cerr, cout, maxRetries, attempt, rpc, fnCalls, fnOk, sleeps, thrown,
          pcfg, pfiles, pstat, ppc, pgroups, pgi, psi, presults, pcalls, pruns, plast,
          ccfg, now, disk, cache, ncalls, last, disposed,
          bopts, bfiles, btask, bresults, berrors, bprocessed, brejected, bpc, bret,
          fmax, freq, fctl, fmetrics, fcount, ecall, eret>>

(***************************************************************************)
(* Words and messages.                                                     *)
(***************************************************************************)
\* a status code as a word of a message
NumWord(n) ==
  CASE n = 429 -> "429" [] n = 401 -> "401" [] n = 403 -> "403" [] n = 500 -> "500"
    [] OTHER -> "0"

\* msg.includes(pat): pat is a contiguous run of words of msg
Includes(msg, pat) ==
  \E i \in 0..(Len(msg) - Len(pat)) :
    \A j \in 1..Len(pat) : msg[i + j] = pat[j]

NoMsg == <<>>

\* What a provider call can fail with: an HTTP error object carrying `response`
\* (status, optional message of the response body, own message), a client-side
\* Error (no `response`), or a thrown non-Error value.  `cause` is what really
\* happened; the code never reads it.
HttpFailure(status, bodies) ==
  [ kind : {"http"}, status : {status}, body : bodies \cup {NoMsg},
    message : { NoMsg, <<"Request", "failed">>,
                <<"Request", "failed", "with", "status", "code">> \o <<NumWord(status)>> },
    cause : {"http"} ]

HttpFailures ==
  HttpFailure(429, { <<"Too", "many", "requests">>,
                     <<"Rate", "limit", "reached", "for", "requests">>,
                     <<"You", "hit", "the", "rate", "limit">> })
  \cup HttpFailure(401, { <<"Incorrect", "API", "key", "provided">>,
                          <<"unauthorized">> })
  \cup HttpFailure(403, { <<"Country", "not", "supported">> })
  \cup HttpFailure(500, { <<"Internal", "server", "error">> })

ClientFailures ==
  [ kind : {"error"}, status : {0}, body : {NoMsg},
    message : { <<"connect", "ECONNREFUSED">>, <<"connect", "ETIMEDOUT">>,
                <<"network", "unreachable">> },
    cause : {"network"} ]
  \cup
  [ kind : {"error"}, status : {0}, body : {NoMsg},
    message : { <<"connect", "ETIMEDOUT">>, <<"Request", "timed", "out.">> },
    cause : {"timeout"} ]
  \cup
  [ kind : {"error"}, status : {0}, body : {NoMsg},
    message : { <<"No", "content", "in", "OpenAI", "response">> },
    cause : {"other"} ]

ValueFailures ==
  [ kind : {"value"}, status : {0}, body : {NoMsg}, message : {NoMsg},
    cause : {"other"} ]

Failures == HttpFailures \cup ClientFailures \cup ValueFailures

\* "no failure" and "no NamingError"
NoFailure ==
  [kind |-> "none", status |-> 0, body |-> NoMsg, message |-> NoMsg, cause |-> "none"]

NoError == [code |-> "none", retryable |-> FALSE]

NoTransformed == [isError |-> FALSE, message |-> NoMsg]

(***************************************************************************)
(* OpenAIProvider.transformError: the Error that executeRequest throws.    *)
(* The result is [isError, message].                                       *)
(***************************************************************************)
ApiMessage(f) ==
  IF f.body # NoMsg THEN f.body
  ELSE IF f.message # NoMsg THEN f.message
  ELSE <<"Unknown", "error">>

transformError(f) ==
  IF f.kind = "http"
  THEN IF f.status = 429
       THEN [isError |-> TRUE,
             message |-> <<"Rate", "limit", "exceeded:">> \o ApiMessage(f)]
       ELSE IF f.status = 401
       THEN [isError |-> TRUE,
             message |-> <<"Authentication", "failed:">> \o ApiMessage(f)]
       ELSE [isError |-> TRUE,
             message |-> <<"OpenAI", "API", "error:">> \o ApiMessage(f)]
  ELSE IF f.kind = "error"
  THEN [isError |-> TRUE, message |-> f.message]
  ELSE [isError |-> TRUE, message |-> <<"Unknown", "error", "occurred">>]

(***************************************************************************)
(* AIProvider.handleError: the NamingError of a thrown value.              *)
(***************************************************************************)
handleError(e) ==
  IF e.isError
  THEN IF Includes(e.message, <<"rate", "limit">>) \/ Includes(e.message, <<"429">>)
       THEN [code |-> "RATE_LIMIT", retryable |-> TRUE]
       ELSE IF \/ Includes(e.message, <<"401">>)
               \/ Includes(e.message, <<"403">>)
               \/ Includes(e.message, <<"authentication">>)
               \/ Includes(e.message, <<"unauthorized">>)
       THEN [code |-> "AUTH_ERROR", retryable |-> FALSE]
       ELSE IF \/ Includes(e.message, <<"ECONNREFUSED">>)
               \/ Includes(e.message, <<"ETIMEDOUT">>)
               \/ Includes(e.message, <<"network">>)
       THEN [code |-> "NETWORK_ERROR", retryable |-> TRUE]
       ELSE [code |-> "PROVIDER_ERROR", retryable |-> FALSE]
  ELSE [code |-> "UNKNOWN_ERROR", retryable |-> FALSE]

(***************************************************************************)
(* AIProvider.executeWithRetry(fn, maxRetries).                            *)
(* fn() either returns or throws one of RetryErrors; Math.random() is one  *)
(* of RandomPerMille / 1000.                                               *)
(***************************************************************************)
MaxRetriesBound == 5

baseDelay == 1000

maxDelay == 10000

\* the values thrown by fn(): Errors with a message, or a non-Error value
RetryErrors ==
  { [isError |-> TRUE, message |-> <<"rate", "limit", "reached">>],
    [isError |-> TRUE, message |-> <<"connect", "ETIMEDOUT">>],
    [isError |-> TRUE, message |-> <<"Authentication", "failed:", "401">>],
    [isError |-> TRUE, message |-> <<"Internal", "server", "error">>],
    [isError |-> FALSE, message |-> <<"oops">>] }

\* Math.random(), in thousandths: 0 <= Math.random() < 1
RandomPerMille == {0, 999}

Min(a, b) == IF a <= b THEN a ELSE b

\* delay = Math.min(baseDelay * Math.pow(2, attempt - 1), maxDelay)
BackoffDelayOffByOne(att) == Min(baseDelay * 2 ^ att, maxDelay)

BackoffDelay(att) == Min(baseDelay * 2 ^ (att - 1), maxDelay)

\* jitter = Math.random() * 0.3 * delay, in whole milliseconds
Jitter(r, delay) == (r * 3 * delay) \div 10000

\* if (!namingError.retryable || attempt > maxRetries) throw lastError
GiveUpIgnoringClass(ne, att, max) == att > max

GiveUp(ne, att, max) == (~ne.retryable) \/ att > max

\* lastError = error instanceof Error ? error : new Error(String(error)),
\* tagged with the number of the call that threw it
LastError(e, n) == [isError |-> TRUE, message |-> e.message, call |-> n]

NoThrown == [isError |-> FALSE, message |-> NoMsg, call |-> 0]

RetryInit ==
  /\ maxRetries \in 0..MaxRetriesBound
  /\ attempt = 0
  /\ rpc = "calling"
  /\ fnCalls = <<>>
  /\ fnOk = 0
  /\ sleeps = <<>>
  /\ thrown = NoThrown

\* return await fn()
FnReturns ==
  /\ rpc = "calling"
  /\ attempt <= maxRetries
  /\ fnOk' = fnOk + 1
  /\ rpc' = "returned"
  /\ UNCHANGED <<maxRetries, attempt, fnCalls, sleeps, thrown>>

\* fn() throws e: the catch block, up to the throw or the await of sleep
FnThrows(e, r) ==
  /\ rpc = "calling"
  /\ attempt <= maxRetries
  /\ fnCalls' = Append(fnCalls, e)
  /\ attempt' = attempt + 1
  /\ IF GiveUp(handleError(e), attempt + 1, maxRetries)
     THEN /\ thrown' = LastError(e, Len(fnCalls) + 1)
          /\ rpc' = "thrown"
          /\ UNCHANGED sleeps
     ELSE /\ sleeps' = Append(sleeps,
                         [base |-> BackoffDelay(attempt + 1),
                          total |-> BackoffDelay(attempt + 1)
                                      + Jitter(r, BackoffDelay(attempt + 1))])
          /\ rpc' = "sleeping"
          /\ UNCHANGED thrown
  /\ UNCHANGED <<maxRetries, fnOk>>

\* the sleep's timer fires: back to the loop test (while (attempt <= maxRetries));
\* past the loop: throw lastError ?? new Error('Max retries exceeded')
Wake ==
  /\ rpc = "sleeping"
  /\ IF attempt <= maxRetries
     THEN rpc' = "calling" /\ UNCHANGED thrown
     ELSE rpc' = "thrown"
          /\ thrown' = LastError(fnCalls[Len(fnCalls)], Len(fnCalls))
  /\ UNCHANGED <<maxRetries, attempt, fnCalls, fnOk, sleeps>>

(***************************************************************************)
(* Names: strings are sequences of one-character strings.                  *)
(***************************************************************************)
Digits == {"0", "1", "2", "3", "4", "5", "6", "7", "8", "9"}

DigitChars == <<"0", "1", "2", "3", "4", "5", "6", "7", "8", "9">>

IsDigit(c) == c \in Digits

\* String(n) for n >= 0
RECURSIVE NumStr(_)
NumStr(n) ==
  IF n < 10 THEN <<DigitChars[n + 1]>>
  ELSE NumStr(n \div 10) \o <<DigitChars[(n % 10) + 1]>>

\* s.padStart(width, '0')
RECURSIVE PadStart(_, _)
PadStart(s, width) == IF Len(s) >= width THEN s ELSE PadStart(<<"0">> \o s, width)

\* length of the run of digits that ends the string
RECURSIVE TrailingDigits(_)
TrailingDigits(s) ==
  IF s = <<>> \/ ~IsDigit(s[Len(s)]) THEN 0
  ELSE 1 + TrailingDigits(SubSeq(s, 1, Len(s) - 1))

\* s.includes(t) / s.indexOf(t) for strings as character sequences
StartsAt(s, t, i) ==
  /\ i >= 1 /\ i + Len(t) - 1 <= Len(s)
  /\ \A j \in 1..Len(t) : s[i + j - 1] = t[j]

IndexOf(s, t) ==
  IF \E i \in 1..Len(s) : StartsAt(s, t, i)
  THEN CHOOSE i \in 1..Len(s) : StartsAt(s, t, i) /\ \A k \in 1..(i - 1) : ~StartsAt(s, t, k)
  ELSE 0

\* s.replace(t, by): the first occurrence of the string t
ReplaceFirst(s, t, by) ==
  LET i == IndexOf(s, t)
  IN  IF i = 0 THEN s
      ELSE SubSeq(s, 1, i - 1) \o by \o SubSeq(s, i + Len(t), Len(s))

AllDigits(s, from, n) ==
  /\ from >= 1 /\ from + n - 1 <= Len(s)
  /\ \A j \in from..(from + n - 1) : IsDigit(s[j])

\* /(\d{4}_\d{2}_\d{2})/ matches at i
UnderscoreDateAt(s, i) ==
  /\ i + 9 <= Len(s)
  /\ AllDigits(s, i, 4) /\ s[i + 4] = "_"
  /\ AllDigits(s, i + 5, 2) /\ s[i + 7] = "_"
  /\ AllDigits(s, i + 8, 2)

PlaceholderN == <<"[", "n", "]">>

PlaceholderDate == <<"[", "d", "a", "t", "e", "]">>

(***************************************************************************)
(* BatchGrouper.extractPattern                                             *)
(***************************************************************************)
extractPattern(generatedName) ==
  IF generatedName = <<>> THEN PlaceholderN
  ELSE LET k == TrailingDigits(generatedName)
       IN  IF k >= 3
           THEN SubSeq(generatedName, 1, Len(generatedName) - k) \o PlaceholderN
           ELSE IF \E i \in 1..Len(generatedName) : UnderscoreDateAt(generatedName, i)
           THEN LET i == CHOOSE i \in 1..Len(generatedName) :
                           /\ UnderscoreDateAt(generatedName, i)
                           /\ \A h \in 1..(i - 1) : ~UnderscoreDateAt(generatedName, h)
                IN  ReplaceFirst(generatedName, SubSeq(generatedName, i, i + 9),
                                 PlaceholderDate)
           ELSE generatedName \o <<"_">> \o PlaceholderN

(***************************************************************************)
(* BatchGrouper.applyPattern                                               *)
(* /(\d{4})[-_]?(\d{2})[-_]?(\d{2})/ on the sibling's original name; today *)
(* is new Date() as YYYY_MM_DD.                                            *)
(***************************************************************************)
IsSep(s, i) == i <= Len(s) /\ s[i] \in {"-", "_"}

\* the match that starts at i, as <<year, month, day>>, or <<>> when none
DateMatchAt(s, i) ==
  IF ~AllDigits(s, i, 4) THEN <<>>
  ELSE LET m == IF IsSep(s, i + 4) THEN i + 5 ELSE i + 4
       IN  IF ~AllDigits(s, m, 2) THEN <<>>
           ELSE LET d == IF IsSep(s, m + 2) THEN m + 3 ELSE m + 2
                IN  IF ~AllDigits(s, d, 2) THEN <<>>
                    ELSE <<SubSeq(s, i, i + 3), SubSeq(s, m, m + 1), SubSeq(s, d, d + 1)>>

DateMatch(s) ==
  IF \E i \in 1..Len(s) : DateMatchAt(s, i) # <<>>
  THEN DateMatchAt(s, CHOOSE i \in 1..Len(s) :
                        /\ DateMatchAt(s, i) # <<>>
                        /\ \A h \in 1..(i - 1) : DateMatchAt(s, h) = <<>>)
  ELSE <<>>

applyPattern(pattern, fileIndex, originalName, today) ==
  LET r1 == IF IndexOf(pattern, PlaceholderN) # 0
            THEN ReplaceFirst(pattern, PlaceholderN, PadStart(NumStr(fileIndex + 2), 3))
            ELSE pattern
  IN  IF IndexOf(r1, PlaceholderDate) # 0 /\ originalName # <<>>
      THEN LET dm == DateMatch(originalName)
           IN  IF dm # <<>>
               THEN ReplaceFirst(r1, PlaceholderDate,
                                 dm[1] \o <<"_">> \o dm[2] \o <<"_">> \o dm[3])
               ELSE ReplaceFirst(r1, PlaceholderDate, today)
      ELSE r1

(***************************************************************************)
(* BatchGrouper.group: buckets in first-seen order (a Map keeps insertion  *)
(* order), the first file of a bucket is the representative.               *)
(***************************************************************************)
\* the files of the list with the given bucket key, in list order
RECURSIVE BucketItems(_, _, _)
BucketItems(files, keyOf, key) ==
  IF files = <<>> THEN <<>>
  ELSE (IF keyOf[Head(files)] = key THEN <<Head(files)>> ELSE <<>>)
         \o BucketItems(Tail(files), keyOf, key)

\* the bucket keys in first-seen order
RECURSIVE BucketOrder(_, _, _)
BucketOrder(files, keyOf, seen) ==
  IF files = <<>> THEN <<>>
  ELSE IF keyOf[Head(files)] \in seen
       THEN BucketOrder(Tail(files), keyOf, seen)
       ELSE <<keyOf[Head(files)]>>
              \o BucketOrder(Tail(files), keyOf, seen \cup {keyOf[Head(files)]})

groupLastAsRepresentative(files, keyOf) ==
  LET order == BucketOrder(files, keyOf, {})
  IN  [g \in 1..Len(order) |->
         LET items == BucketItems(files, keyOf, order[g])
         IN  [representative |-> items[Len(items)],
              similar |-> SubSeq(items, 1, Len(items) - 1)]]

group(files, keyOf) ==
  LET order == BucketOrder(files, keyOf, {})
  IN  [g \in 1..Len(order) |->
         LET items == BucketItems(files, keyOf, order[g])
         IN  [representative |-> Head(items), similar |-> Tail(items)]]

(***************************************************************************)
(* SmartPipeline: configuration (buildConfig), prices (calculateCost).     *)
(***************************************************************************)
presets ==
  [ aggressive |-> [enableMetadataStage |-> TRUE, enableCheapModelStage |-> TRUE,
                    metadata |-> 7000, cheapModel |-> 6000],
    balanced   |-> [enableMetadataStage |-> TRUE, enableCheapModelStage |-> TRUE,
                    metadata |-> 8000, cheapModel |-> 7000],
    quality    |-> [enableMetadataStage |-> FALSE, enableCheapModelStage |-> FALSE,
                    metadata |-> 9500, cheapModel |-> 9000] ]

\* { ...presets[strategy], ...config }: a preset, or a preset with fields overridden
PipelineConfigs ==
  { presets.aggressive, presets.balanced, presets.quality,
    [presets.balanced EXCEPT !.metadata = 5000, !.enableCheapModelStage = FALSE] }

\* price of one token, in 10^-9 dollars (1.25 dollars per million tokens is 1250)
pricing(model) ==
  CASE model = "gpt-5" -> 1250
    [] model = "gpt-5-mini" -> 250
    [] model = "gpt-5-nano" -> 50
    [] model = "gpt-4o" -> 2500
    [] OTHER -> 250

calculateCost(tokens, model) == tokens * pricing(model)

\* repResult.confidence > 0.7
PatternTrustedAtThreshold(confidence) == confidence >= 7000

PatternTrusted(confidence) == confidence > 7000

(***************************************************************************)
(* The inputs of one processFile run.                                      *)
(***************************************************************************)
MaxBatch == 3

BatchFiles == 1..MaxBatch

\* path.basename of file f
OrigName(f) == <<"I", "M", "G", "_">> \o PadStart(NumStr(f), 3)

\* MetadataExtractor.canNameFromMetadata: it throws (fs.stat fails), or
\* returns one of the scores of calculateConfidence with a name
MetaOutcomes ==
  [throws : {TRUE}, confidence : {0}] \cup
  [throws : {FALSE}, confidence : {3000, 6500, 8000, 9500}]

MetaName(f) == <<"s", "h", "o", "t", "_">> \o PadStart(NumStr(f), 3)

\* provider.generateName(filePath): a response with a name and the provider's
\* confidence (calculateConfidence: 0.95, 0.7, 0.5); or, the call having failed,
\* the response of generateName's catch branch (the original name, confidence
\* 0, error set); or the TypeError of that catch branch reading
\* context.filePath, processFile passing no context.
ProviderName == <<"b", "e", "a", "c", "h", "_", "0", "0", "1">>

ProviderOutcomes(f) ==
  [kind : {"ok"}, suggestedName : {ProviderName}, confidence : {9500, 7000, 5000},
   error : {"none"}]
  \cup
  { [kind |-> "errorResponse", suggestedName |-> OrigName(f), confidence |-> 0,
     error |-> "provider"],
    [kind |-> "throws", suggestedName |-> <<>>, confidence |-> 0,
     error |-> "TypeError"] }

NoProvider == [kind |-> "none", suggestedName |-> <<>>, confidence |-> 0, error |-> "none"]

NoResult ==
  [originalName |-> 0, suggestedName |-> <<>>, confidence |-> 0, stage |-> "none",
   tokensUsed |-> 0, cost |-> 0]

Today == <<"2", "0", "2", "6", "_", "1", "1", "_", "0", "4">>

(***************************************************************************)
(* SmartPipeline.processFile and its stages.                               *)
(***************************************************************************)
tryMetadataOnlyTrustsFailure(cfg, m) ==
  IF m.throws THEN [null |-> FALSE, confidence |-> 9500]
  ELSE IF m.confidence >= cfg.metadata
       THEN [null |-> FALSE, confidence |-> m.confidence]
       ELSE [null |-> TRUE, confidence |-> 0]

\* tryMetadataOnly: the score if it reaches the threshold, else null
tryMetadataOnly(cfg, m) ==
  IF m.throws THEN [null |-> TRUE, confidence |-> 0]
  ELSE IF m.confidence >= cfg.metadata
       THEN [null |-> FALSE, confidence |-> m.confidence]
       ELSE [null |-> TRUE, confidence |-> 0]

\* if (metadataResult && metadataResult.confidence >= thresholds.metadata)
MetadataAcceptedStrict(cfg, md) == (~md.null) /\ md.confidence > cfg.metadata

MetadataAccepted(cfg, md) == (~md.null) /\ md.confidence >= cfg.metadata

\* tryCheapModel: returns null, and calls nothing
tryCheapModel == [null |-> TRUE, confidence |-> 0, calls |-> 0]

\* tryPremiumModel: one provider.generateName call
tryPremiumModel(f, p) ==
  IF p.kind = "throws"
  THEN [outcome |-> "throws", error |-> p.error, result |-> NoResult]
  ELSE [outcome |-> "result", error |-> "none",
        result |-> [originalName |-> f, suggestedName |-> p.suggestedName,
                    confidence |-> p.confidence, stage |-> "premium-model",
                    tokensUsed |-> 200, cost |-> calculateCost(200, "gpt-5")]]

\* One run of processFile on f: m and p are what the metadata extractor and
\* the provider would answer.  The value tells what the run delivered, the
\* stages it went through in order, and the generateName calls it made.
processFile(f, cfg, m, p) ==
  LET md == IF cfg.enableMetadataStage THEN tryMetadataOnly(cfg, m)
            ELSE [null |-> TRUE, confidence |-> 0]
      s0 == IF cfg.enableMetadataStage THEN <<"metadata">> ELSE <<>>
      s1 == IF cfg.enableCheapModelStage THEN <<"cheap-model">> ELSE <<>>
  IN  IF cfg.enableMetadataStage /\ MetadataAccepted(cfg, md)
      THEN [file |-> f, meta |-> m, prov |-> NoProvider, stages |-> s0, calls |-> 0,
            outcome |-> "result", error |-> "none",
            result |-> [originalName |-> f, suggestedName |-> MetaName(f),
                        confidence |-> md.confidence, stage |-> "metadata",
                        tokensUsed |-> 0, cost |-> 0]]
      ELSE IF /\ cfg.enableCheapModelStage
              /\ ~tryCheapModel.null
              /\ tryCheapModel.confidence >= cfg.cheapModel
      THEN [file |-> f, meta |-> m, prov |-> NoProvider, stages |-> s0 \o s1,
            calls |-> tryCheapModel.calls, outcome |-> "result", error |-> "none",
            result |-> NoResult]
      ELSE LET pr == tryPremiumModel(f, p)
           IN  [file |-> f, meta |-> m, prov |-> p,
                stages |-> s0 \o s1 \o <<"premium-model">>,
                calls |-> (IF cfg.enableCheapModelStage THEN tryCheapModel.calls ELSE 0) + 1,
                outcome |-> pr.outcome, error |-> pr.error, result |-> pr.result]

NoRun ==
  [file |-> 0, meta |-> [throws |-> FALSE, confidence |-> 0], prov |-> NoProvider,
   stages |-> <<>>, calls |-> 0, outcome |-> "none", error |-> "none",
   result |-> NoResult]

(***************************************************************************)
(* SmartPipeline.processBatch, one action per await.                       *)
(***************************************************************************)
BucketKeys == {"image|small|/in|2026-11-04", "pdf|small|/in|2026-11-04"}

PipeInit ==
  /\ pcfg \in PipelineConfigs
  /\ \E n \in 0..MaxBatch : pfiles = [i \in 1..n |-> i]
  /\ pstat \in [BatchFiles -> [ok : BOOLEAN, key : BucketKeys]]
  /\ \A f \in BatchFiles : f > Len(pfiles) => pstat[f] = [ok |-> TRUE, key |-> "pdf|small|/in|2026-11-04"]
  /\ ppc = "start"
  /\ pgroups = <<>>
  /\ pgi = 1
  /\ psi = 0
  /\ presults = <<>>
  /\ pcalls = [f \in BatchFiles |-> 0]
  /\ pruns = [f \in BatchFiles |-> 0]
  /\ plast = NoRun

\* const groups = await this.batchGrouper.group(files): extractFileMetadata
\* stats every file, and one failing stat rejects the Promise.all
GroupFiles ==
  /\ ppc = "start"
  /\ IF pfiles = <<>>
     THEN ppc' = "loop" /\ pgroups' = <<>>
     ELSE IF \E i \in 1..Len(pfiles) : ~pstat[pfiles[i]].ok
     THEN ppc' = "rejected" /\ UNCHANGED pgroups
     ELSE /\ ppc' = "loop"
          /\ pgroups' = group(pfiles, [f \in BatchFiles |-> pstat[f].key])
  /\ UNCHANGED <<pcfg, pfiles, pstat, pgi, psi, presults, pcalls, pruns, plast>>

PatternResultsFullConfidence(similar, repResult) ==
  [i \in 1..Len(similar) |->
     [originalName |-> similar[i],
      suggestedName |-> applyPattern(extractPattern(repResult.suggestedName), i - 1,
                                     OrigName(similar[i]), Today),
      confidence |-> repResult.confidence,
      stage |-> "batch-pattern",
      tokensUsed |-> 20,
      cost |-> calculateCost(20, "gpt-5-mini")]]

\* the results pushed for the siblings of a trusted representative
PatternResults(similar, repResult) ==
  [i \in 1..Len(similar) |->
     [originalName |-> similar[i],
      suggestedName |-> applyPattern(extractPattern(repResult.suggestedName), i - 1,
                                     OrigName(similar[i]), Today),
      confidence |-> (repResult.confidence * 95) \div 100,
      stage |-> "batch-pattern",
      tokensUsed |-> 20,
      cost |-> calculateCost(20, "gpt-5-mini")]]

\* the loop body up to the next await: the representative's processFile, and
\* either the pattern results of all its siblings or the start of their loop
ProcessRepresentative ==
  /\ ppc = "loop" /\ pgi <= Len(pgroups) /\ psi = 0
  /\ \E m \in MetaOutcomes, p \in ProviderOutcomes(pgroups[pgi].representative) :
     LET g == pgroups[pgi]
         run == processFile(g.representative, pcfg, m, p)
     IN  /\ plast' = run
         /\ pcalls' = [pcalls EXCEPT ![g.representative] = @ + run.calls]
         /\ pruns' = [pruns EXCEPT ![g.representative] = @ + 1]
         /\ IF run.outcome = "throws"
            THEN ppc' = "rejected" /\ UNCHANGED <<pgi, psi, presults>>
            ELSE /\ ppc' = "loop"
                 /\ IF Len(g.similar) > 0 /\ PatternTrusted(run.result.confidence)
                    THEN /\ presults' = Append(presults, run.result)
                                          \o PatternResults(g.similar, run.result)
                         /\ pgi' = pgi + 1 /\ psi' = 0
                    ELSE /\ presults' = Append(presults, run.result)
                         /\ IF Len(g.similar) > 0
                            THEN pgi' = pgi /\ psi' = 1
                            ELSE pgi' = pgi + 1 /\ psi' = 0
  /\ UNCHANGED <<pcfg, pfiles, pstat, pgroups>>

\* for (const similarFile of group.similar) await this.processFile(similarFile)
ProcessSibling ==
  /\ ppc = "loop" /\ pgi <= Len(pgroups) /\ psi >= 1
  /\ \E m \in MetaOutcomes, p \in ProviderOutcomes(pgroups[pgi].similar[psi]) :
     LET g == pgroups[pgi]
         f == g.similar[psi]
         run == processFile(f, pcfg, m, p)
     IN  /\ plast' = run
         /\ pcalls' = [pcalls EXCEPT ![f] = @ + run.calls]
         /\ pruns' = [pruns EXCEPT ![f] = @ + 1]
         /\ IF run.outcome = "throws"
            THEN ppc' = "rejected" /\ UNCHANGED <<pgi, psi, presults>>
            ELSE /\ ppc' = "loop"
                 /\ presults' = Append(presults, run.result)
                 /\ IF psi < Len(g.similar)
                    THEN pgi' = pgi /\ psi' = psi + 1
                    ELSE pgi' = pgi + 1 /\ psi' = 0
  /\ UNCHANGED <<pcfg, pfiles, pstat, pgroups>>

\* return results
ReturnResults ==
  /\ ppc = "loop" /\ pgi > Len(pgroups)
  /\ ppc' = "done"
  /\ UNCHANGED <<pcfg, pfiles, pstat, pgroups, pgi, psi, presults, pcalls, pruns, plast>>

PipeParked ==
  /\ pcfg = presets.balanced /\ pfiles = <<>> /\ pstat = <<>> /\ ppc = "parked"
  /\ pgroups = <<>> /\ pgi = 0 /\ psi = 0 /\ presults = <<>>
  /\ pcalls = <<>> /\ pruns = <<>> /\ plast = NoRun

(***************************************************************************)
(* FileNamingSDK.nameFile and its result cache.                            *)
(*                                                                         *)
(* An options object is the sequence of its own properties in insertion    *)
(* order; a property is [k, t, n, b] with t the type of its value.         *)
(***************************************************************************)
NumProp(k, n) == [k |-> k, t |-> "number", n |-> n, b |-> FALSE]

BoolProp(k, b) == [k |-> k, t |-> "boolean", n |-> 0, b |-> b]

UndefProp(k) == [k |-> k, t |-> "undefined", n |-> 0, b |-> FALSE]

\* the options objects callers pass (none of them sets caseFormat,
\* includeDate or includeSequence)
OptionObjects ==
  { <<NumProp("maxLength", 3), BoolProp("preserveExtension", TRUE)>>,
    <<BoolProp("preserveExtension", TRUE), NumProp("maxLength", 3)>>,
    <<NumProp("maxLength", 4), BoolProp("preserveExtension", TRUE), UndefProp("template")>> }

HasProp(o, k) == \E i \in 1..Len(o) : o[i].k = k /\ o[i].t # "undefined"

Prop(o, k) == o[CHOOSE i \in 1..Len(o) : o[i].k = k /\ o[i].t # "undefined"]

\* JSON.stringify(options ?? {}): the defined properties, in insertion order,
\* each as its key and the text of its value
JSONStringify(o) ==
  LET defined == SelectSeq(o, LAMBDA p : p.t # "undefined")
      Text(p) == IF p.t = "number" THEN NumStr(p.n)
                 ELSE IF p.b THEN <<"t", "r", "u", "e">>
                 ELSE <<"f", "a", "l", "s", "e">>
  IN [i \in 1..Len(defined) |-> [k |-> defined[i].k, text |-> Text(defined[i])]]

\* the files nameFile is called on; MissingFile does not exist on disk
CacheFiles == {1, 2}

MissingFile == 3

\* path.basename(filePath)
BaseName(f) == <<"f">> \o NumStr(f)

FileContents == {<<"x">>, <<"x", "x">>}

\* FileUtils.getFileHash: the sha256 digest of the bytes read from the
\* file, taken to be collision free (the digest is named by the bytes)
getFileHash(d, f) == [sha256 |-> d[f].content]

\* FileNamingSDK.getCacheKey: `${hash}-${optionsStr}`
getCacheKey(d, f, o) == [hash |-> getFileHash(d, f), optionsStr |-> JSONStringify(o)]

\* ---- lru-cache with { max, ttl, updateAgeOnGet: true }: the entries in
\* ---- order of use, the least recently used first
CacheIndex(c, key) ==
  IF \E i \in 1..Len(c) : c[i].key = key
  THEN CHOOSE i \in 1..Len(c) : c[i].key = key
  ELSE 0

Without(c, i) == SubSeq(c, 1, i - 1) \o SubSeq(c, i + 1, Len(c))

IsStaleAtTtl(e, t, ttl) == t - e.start >= ttl

\* an entry is stale once its age exceeds the ttl
IsStale(e, t, ttl) == t - e.start > ttl

NoResponse == [originalName |-> <<>>, suggestedName |-> <<>>, confidence |-> 0, error |-> "none"]

LRUGetInPlace(c, key, t, ttl) ==
  LET i == CacheIndex(c, key)
  IN IF i = 0 THEN [found |-> FALSE, value |-> NoResponse, cache |-> c]
     ELSE IF IsStale(c[i], t, ttl)
     THEN [found |-> FALSE, value |-> NoResponse, cache |-> Without(c, i)]
     ELSE [found |-> TRUE, value |-> c[i].value, cache |-> [c EXCEPT ![i].start = t]]

\* cache.get(key) at time t: a stale entry is deleted and not returned, a
\* fresh one becomes the most recently used and its age restarts
LRUGet(c, key, t, ttl) ==
  LET i == CacheIndex(c, key)
  IN IF i = 0 THEN [found |-> FALSE, value |-> NoResponse, cache |-> c]
     ELSE IF IsStale(c[i], t, ttl)
     THEN [found |-> FALSE, value |-> NoResponse, cache |-> Without(c, i)]
     ELSE [found |-> TRUE, value |-> c[i].value,
           cache |-> Append(Without(c, i), [c[i] EXCEPT !.start = t])]

\* cache.set(key, value) at time t: an existing entry is replaced, else the
\* least recently used entry makes room when the cache is full
LRUSet(c, key, value, t, max) ==
  LET i == CacheIndex(c, key)
      e == [key |-> key, value |-> value, start |-> t]
  IN IF i # 0 THEN Append(Without(c, i), e)
     ELSE IF Len(c) >= max THEN Append(Tail(c), e)
     ELSE Append(c, e)

\* ---- the provider, as nameFile sees it
SuggestedNames == { <<"b", "e", "a", "c", "h">>, <<"s", "u", "n", "s", "e", "t">> }

\* provider.generateName(prompt, context): a name, or the response with
\* confidence 0 and an error that its catch returns
GenerateNameOutcomes(f) ==
  { [originalName |-> BaseName(f), suggestedName |-> n, confidence |-> 8000, error |-> "none"] :
      n \in SuggestedNames }
  \cup { [originalName |-> BaseName(f), suggestedName |-> BaseName(f), confidence |-> 0,
          error |-> "PROVIDER_ERROR"] }

namingMaxLength == 100

\* applyNamingOptions under the default naming config (format 'preserve',
\* sanitize true): sanitizeFilename truncates to maxLength; the names here
\* have no extension and no reserved character
applyNamingOptions(response, o) ==
  LET max == IF HasProp(o, "maxLength") THEN Prop(o, "maxLength").n ELSE namingMaxLength
      name == response.suggestedName
  IN [response EXCEPT !.suggestedName = IF Len(name) > max THEN SubSeq(name, 1, max) ELSE name]

\* ---- state of the SDK instance and of the disk
MaxClock == 2

MaxCalls == 2

CacheConfigs ==
  { [enabled |-> TRUE, ttl |-> 1, maxSize |-> 1],
    [enabled |-> TRUE, ttl |-> 1, maxSize |-> 2],
    [enabled |-> FALSE, ttl |-> 1, maxSize |-> 2] }

NoKey == [hash |-> [sha256 |-> <<>>], optionsStr |-> <<>>]

NoSnapshot == [content |-> <<>>, mtime |-> 0]

NoCall ==
  [file |-> 0, opts |-> <<>>, snapshot |-> NoSnapshot, key |-> NoKey, at |-> 0,
   outcome |-> "none", hit |-> FALSE, response |-> NoResponse, calls |-> 0,
   again |-> FALSE]

\* the call of nameFile(f, o) at time t under cache config cfg comes after
\* the call before: same path, same options object, the file as it was, and
\* no later than the ttl after it
Repeats(before, f, o, d, t, cfg) ==
  /\ before.outcome = "returned"
  /\ before.file = f /\ before.opts = o
  /\ f \in DOMAIN d /\ before.snapshot = d[f]
  /\ t - before.at <= cfg.ttl

CacheInit ==
  /\ ccfg \in CacheConfigs
  /\ now = 0
  /\ disk = [f \in CacheFiles |-> [content |-> <<"x">>, mtime |-> 0]]
  /\ cache = <<>>
  /\ ncalls = 0
  /\ last = NoCall
  /\ disposed = NoKey

\* size of a file, as fs.stat reports it
Size(snapshot) == Len(snapshot.content)

\* the keys of the entries in the cache
CachedKeys(c) == {c[i].key : i \in 1..Len(c)}

\* the key of the entry that left the cache c when key was looked up and
\* stored and the cache became d, or NoKey
EvictedKey(c, d, key) ==
  IF \E k \in CachedKeys(c) \ (CachedKeys(d) \cup {key}) : TRUE
  THEN CHOOSE k \in CachedKeys(c) \ (CachedKeys(d) \cup {key}) : TRUE
  ELSE NoKey

\* one call of nameFile(filePath, options), from entry to settlement
NameFileCall(f, o) ==
  /\ ncalls' = ncalls + 1
  /\ IF f \notin DOMAIN disk
     THEN \* FileUtils.validateFile: 'File does not exist'; the catch rethrows
          /\ last' = [NoCall EXCEPT !.file = f, !.opts = o, !.at = now, !.outcome = "threw"]
          /\ UNCHANGED cache
     ELSE LET key == getCacheKey(disk, f, o)
              got == IF ccfg.enabled
                     THEN LRUGet(cache, key, now, ccfg.ttl)
                     ELSE [found |-> FALSE, value |-> NoResponse, cache |-> cache]
              call == [file |-> f, opts |-> o, snapshot |-> disk[f], key |-> key, at |-> now,
                       outcome |-> "returned", hit |-> FALSE, response |-> NoResponse,
                       calls |-> 0, again |-> Repeats(last, f, o, disk, now, ccfg)]
          IN IF got.found
             THEN /\ last' = [call EXCEPT !.hit = TRUE, !.response = got.value]
                  /\ cache' = got.cache
             ELSE \E r \in GenerateNameOutcomes(f) :
                    LET finalResponse == applyNamingOptions(r, o)
                    IN /\ last' = [call EXCEPT !.response = finalResponse, !.calls = 1]
                       /\ cache' = IF ccfg.enabled
                                   THEN LRUSet(got.cache, key, finalResponse, now, ccfg.maxSize)
                                   ELSE got.cache
  /\ UNCHANGED <<ccfg, now, disk>>

\* nameFile is called while fewer than MaxCalls calls have been made
NameFile(f, o) == ncalls < MaxCalls /\ NameFileCall(f, o)

\* the files that change on disk between calls
ChangingFiles == {1}

\* the file is touched: only its modify-time changes
Touch(f) ==
  /\ disk[f].mtime # now
  /\ disk' = [disk EXCEPT ![f].mtime = now]
  /\ UNCHANGED <<ccfg, now, cache, ncalls, last>>

\* the file is rewritten with other bytes
Modify(f, c) ==
  /\ disk[f].content # c
  /\ disk' = [disk EXCEPT ![f] = [content |-> c, mtime |-> now]]
  /\ UNCHANGED <<ccfg, now, cache, ncalls, last>>

\* time passes between calls
Tick ==
  /\ now < MaxClock
  /\ now' = now + 1
  /\ UNCHANGED <<ccfg, disk, cache, ncalls, last>>

CacheParked ==
  /\ ccfg = [enabled |-> TRUE, ttl |-> 1, maxSize |-> 1] /\ now = 0 /\ disk = <<>>
  /\ cache = <<>> /\ ncalls = 0 /\ last = NoCall /\ disposed = NoKey

(***************************************************************************)
(* FileNamingSDK.nameBatch: one task per file on a PQueue.                 *)
(***************************************************************************)
MaxBatchFiles == 3

\* config.batch.concurrency
defaultConcurrency == 5

\* the options of nameBatch: continueOnError given or not, concurrency given
\* (1, 2) or not (0)
BatchOptions == [continueOnError : {"unset", "true", "false"}, concurrency : {0, 1, 2}]

\* options?.concurrency ?? config.batch.concurrency
Concurrency(o) == IF o.concurrency = 0 THEN defaultConcurrency ELSE o.concurrency

\* !options?.continueOnError
Rethrow(o) == o.continueOnError # "true"

\* how nameFile settles for a file of the batch: a name, the provider's
\* response with an error, or a throw (validation, analysis)
NameFileOutcomes == {"named", "errorResponse", "threw"}

NoBatchResult == [totalProcessed |-> 0, totalSuccess |-> 0, totalFailed |-> 0]

BatchInit ==
  /\ bopts \in BatchOptions
  /\ \E n \in 0..MaxBatchFiles : bfiles = [i \in 1..n |-> i]
  /\ btask = [i \in 1..Len(bfiles) |-> "queued"]
  /\ bresults = <<>>
  /\ berrors = <<>>
  /\ bprocessed = 0
  /\ brejected = FALSE
  /\ bpc = "running"
  /\ bret = NoBatchResult

\* the tasks PQueue has started and that have not settled: inside nameFile,
\* either in a provider attempt or asleep in executeWithRetry's backoff
Running == {i \in 1..Len(bfiles) : btask[i] \in {"running", "backoff"}}

\* PQueue has a slot free and a task waiting; it starts tasks synchronously,
\* on add and when a task settles, so nothing else happens in between
CanStartOverLimit ==
  /\ Cardinality(Running) <= Concurrency(bopts)
  /\ \E i \in 1..Len(bfiles) : btask[i] = "queued"

CanStart ==
  /\ Cardinality(Running) < Concurrency(bopts)
  /\ \E i \in 1..Len(bfiles) : btask[i] = "queued"

\* PQueue starts the oldest waiting task while fewer than concurrency run
StartTask ==
  /\ CanStart
  /\ \E i \in 1..Len(bfiles) :
       /\ btask[i] = "queued"
       /\ \A j \in 1..(i - 1) : btask[j] # "queued"
       /\ btask' = [btask EXCEPT ![i] = "running"]
  /\ UNCHANGED <<bopts, bfiles, bresults, berrors, bprocessed, brejected, bpc, bret>>

\* sleep is a timer promise: a task asleep in its backoff holds no thread,
\* so the call of another task settles as soon as its own awaits resolve
CanSettleUnlessAsleep(i) ==
  /\ i \in 1..Len(bfiles) /\ btask[i] = "running"
  /\ \A k \in 1..Len(bfiles) : btask[k] # "backoff"
  /\ ~CanStart
  /\ ~(brejected /\ bpc = "running")

CanSettle(i) ==
  /\ i \in 1..Len(bfiles) /\ btask[i] = "running"
  /\ ~CanStart
  /\ ~(brejected /\ bpc = "running")

\* the provider attempt of file i fails with a retryable error and
\* executeWithRetry awaits sleep(delay)
SuspendTask(i) ==
  /\ CanSettle(i)
  /\ btask' = [btask EXCEPT ![i] = "backoff"]
  /\ UNCHANGED <<bopts, bfiles, bresults, berrors, bprocessed, brejected, bpc, bret>>

\* the timer of file i fires and the next attempt starts
WakeTask(i) ==
  /\ i \in 1..Len(bfiles) /\ btask[i] = "backoff"
  /\ ~CanStart
  /\ ~(brejected /\ bpc = "running")
  /\ btask' = [btask EXCEPT ![i] = "running"]
  /\ UNCHANGED <<bopts, bfiles, bresults, berrors, bprocessed, brejected, bpc, bret>>

\* the task of file i settles: its nameFile call returns or throws. Once
\* Promise.all has rejected, nameBatch resumes before any other task settles.
FinishTask(i, outcome) ==
  /\ CanSettle(i)
  /\ btask' = [btask EXCEPT ![i] = outcome]
  /\ bprocessed' = bprocessed + 1
  /\ IF outcome = "threw"
     THEN /\ berrors' = Append(berrors, [originalName |-> bfiles[i], error |-> "NAMING_ERROR"])
          /\ brejected' = (brejected \/ Rethrow(bopts))
          /\ UNCHANGED bresults
     ELSE /\ bresults' = Append(bresults,
                           [originalName |-> bfiles[i],
                            error |-> IF outcome = "named" THEN "none" ELSE "PROVIDER_ERROR"])
          /\ UNCHANGED <<berrors, brejected>>
  /\ UNCHANGED <<bopts, bfiles, bpc, bret>>

\* await Promise.all(tasks) is over (all tasks fulfilled, or one rejected):
\* nameBatch returns { successful: results, failed: errors, totals }. The
\* two arrays stay the ones the tasks still running push to.
ReturnBatch ==
  /\ bpc = "running"
  /\ ~CanStart
  /\ brejected \/ \A i \in 1..Len(bfiles) : btask[i] \in NameFileOutcomes
  /\ bpc' = "returned"
  /\ bret' = [totalProcessed |-> bprocessed, totalSuccess |-> Len(bresults),
              totalFailed |-> Len(berrors)]
  /\ UNCHANGED <<bopts, bfiles, btask, bresults, berrors, bprocessed, brejected>>

BatchParked ==
  /\ bopts = [continueOnError |-> "unset", concurrency |-> 0] /\ bfiles = <<>>
  /\ btask = <<>> /\ bresults = <<>> /\ berrors = <<>> /\ bprocessed = 0
  /\ brejected = FALSE /\ bpc = "parked" /\ bret = NoBatchResult

(***************************************************************************)
(* Concurrent nameFile calls on one SDK instance: the abort controllers of *)
(* the SDK, and the retry loop and the metrics of its provider.            *)
(***************************************************************************)
MaxRequests == 2

MaxFlightRetries == 1

Requests == 1..MaxRequests

\* a nameFile call: where it is, the provider attempts it has started, and
\* whether its controller has been aborted
NoRequest == [pc |-> "idle", attempts |-> 0, aborted |-> FALSE, events |-> <<>>]

NoMetrics == [totalRequests |-> 0, successfulRequests |-> 0, failedRequests |-> 0]

\* the calls that have entered nameFile and not settled
InFlight == {r \in Requests : freq[r].pc \in {"validating", "attempt", "backoff"}}

\* the calls inside provider.generateName
InProvider == {r \in Requests : freq[r].pc \in {"attempt", "backoff"}}

\* no cancelAllRequests() has just returned
NoCount == [done |-> FALSE]

FlightInit ==
  /\ fmax \in 0..MaxFlightRetries
  /\ freq = [r \in Requests |-> NoRequest]
  /\ fctl = {}
  /\ fmetrics = NoMetrics
  /\ fcount = NoCount

\* nameFile entry: the controller is created and tracked, then the call
\* awaits FileUtils.validateFile
EnterNameFile(r) ==
  /\ freq[r].pc = "idle"
  /\ freq' = [freq EXCEPT ![r].pc = "validating", ![r].events = <<"NamingStart">>]
  /\ fctl' = fctl \cup {r}
  /\ fcount' = NoCount
  /\ UNCHANGED <<fmax, fmetrics>>

SettleEarlyKeepsControllerOnHit(r, how) ==
  /\ freq[r].pc = "validating"
  /\ freq' = [freq EXCEPT ![r].pc = how,
                           ![r].events = Append(@, IF how = "threw" THEN "NamingError"
                                                   ELSE "CacheHit")]
  /\ fctl' = IF how = "threw" THEN fctl \ {r} ELSE fctl
  /\ fcount' = NoCount
  /\ UNCHANGED <<fmax, fmetrics>>

\* validation fails and nameFile throws (the catch emits NamingError), or the
\* cache has the response and nameFile emits CacheHit and returns it;
\* finally removes the controller
SettleEarly(r, how) ==
  /\ freq[r].pc = "validating"
  /\ freq' = [freq EXCEPT ![r].pc = how,
                           ![r].events = Append(@, IF how = "threw" THEN "NamingError"
                                                   ELSE "CacheHit")]
  /\ fctl' = fctl \ {r}
  /\ fcount' = NoCount
  /\ UNCHANGED <<fmax, fmetrics>>

\* the call reaches provider.generateName: totalRequests++, and
\* executeWithRetry starts the first attempt
EnterGenerateName(r) ==
  /\ freq[r].pc = "validating"
  /\ freq' = [freq EXCEPT ![r].pc = "attempt", ![r].attempts = 1]
  /\ fmetrics' = [fmetrics EXCEPT !.totalRequests = @ + 1]
  /\ fcount' = NoCount
  /\ UNCHANGED <<fmax, fctl>>

\* the attempt succeeds: successfulRequests++, nameFile caches the response,
\* emits NamingComplete and returns it
AttemptSucceeds(r) ==
  /\ freq[r].pc = "attempt"
  /\ freq' = [freq EXCEPT ![r].pc = "returned",
                                   ![r].events = Append(@, "NamingComplete")]
  /\ fmetrics' = [fmetrics EXCEPT !.successfulRequests = @ + 1]
  /\ fctl' = fctl \ {r}
  /\ fcount' = NoCount
  /\ UNCHANGED fmax

\* the attempt fails with error e: executeWithRetry gives up (generateName
\* counts the failure and returns the response with the error, which
\* nameFile handles like any response) or sleeps
AttemptFails(r, e) ==
  /\ freq[r].pc = "attempt"
  /\ IF GiveUp(handleError(e), freq[r].attempts, fmax)
     THEN /\ freq' = [freq EXCEPT ![r].pc = "returned",
                                   ![r].events = Append(@, "NamingComplete")]
          /\ fmetrics' = [fmetrics EXCEPT !.failedRequests = @ + 1]
          /\ fctl' = fctl \ {r}
     ELSE /\ freq' = [freq EXCEPT ![r].pc = "backoff"]
          /\ UNCHANGED <<fmetrics, fctl>>
  /\ fcount' = NoCount
  /\ UNCHANGED fmax

\* the backoff sleep is over: the loop calls fn() again
RetryAttempt(r) ==
  /\ freq[r].pc = "backoff"
  /\ freq' = [freq EXCEPT ![r].pc = "attempt", ![r].attempts = @ + 1]
  /\ fcount' = NoCount
  /\ UNCHANGED <<fmax, fctl, fmetrics>>

\* cancelRequest(requestId) of a tracked request
CancelRequest(r) ==
  /\ r \in fctl
  /\ freq' = [freq EXCEPT ![r].aborted = TRUE]
  /\ fctl' = fctl \ {r}
  /\ fcount' = NoCount
  /\ UNCHANGED <<fmax, fmetrics>>

\* cancelAllRequests()
CancelAllRequests ==
  /\ freq' = [r \in Requests |-> IF r \in fctl THEN [freq[r] EXCEPT !.aborted = TRUE] ELSE freq[r]]
  /\ fctl' = {}
  /\ fcount' = [done |-> TRUE, value |-> Cardinality(fctl)]
  /\ UNCHANGED <<fmax, fmetrics>>

\* the caller's signal aborts: the listener nameFile added aborts the controller
SignalAborts(r) ==
  /\ freq[r].pc # "idle"
  /\ ~freq[r].aborted
  /\ freq' = [freq EXCEPT ![r].aborted = TRUE]
  /\ fcount' = NoCount
  /\ UNCHANGED <<fmax, fctl, fmetrics>>

\* provider.resetMetrics()
ResetMetrics ==
  /\ fmetrics' = NoMetrics
  /\ fcount' = NoCount
  /\ UNCHANGED <<fmax, freq, fctl>>

FlightParked ==
  /\ fmax = 0 /\ freq = <<>> /\ fctl = {} /\ fmetrics = NoMetrics /\ fcount = NoCount

(***************************************************************************)
(* Calls of the pure functions of the pipeline: the function called with   *)
(* its arguments, and what it returned.                                    *)
(***************************************************************************)
NoReturn == [done |-> FALSE]

EvalParked == ecall = [fn |-> "none"] /\ eret = NoReturn

(***************************************************************************)
(* MetadataExtractor.calculateConfidence                                   *)
(***************************************************************************)
\* RichMetadata as calculateConfidence reads it: patterns (detectPatterns)
\* and exif (undefined, or with gps and dateTime present or not).  A name
\* that matches /screenshot|screen.?shot|capture/ keeps four letters in a
\* row once its digits are removed, so isScreenshot comes with
\* hasDescriptiveText.
Patterns ==
  {p \in [isScreenshot : BOOLEAN, hasDatePattern : BOOLEAN, hasDescriptiveText : BOOLEAN] :
     p.isScreenshot => p.hasDescriptiveText}

Exifs ==
  {e \in [present : BOOLEAN, gps : BOOLEAN, dateTime : BOOLEAN] :
     ~e.present => (~e.gps /\ ~e.dateTime)}

RichMetadata == [patterns : Patterns, exif : Exifs]

\* metadata.exif?.gps, metadata.exif?.dateTime
ExifGps(metadata) == metadata.exif.present /\ metadata.exif.gps

ExifDateTime(metadata) == metadata.exif.present /\ metadata.exif.dateTime

calculateConfidenceDateFirst(metadata) ==
  IF metadata.patterns.isScreenshot /\ metadata.patterns.hasDatePattern THEN 9500
  ELSE IF ExifGps(metadata) /\ ExifDateTime(metadata) THEN 9000
  ELSE IF ExifDateTime(metadata) THEN 6500
  ELSE IF ExifDateTime(metadata) /\ metadata.patterns.hasDescriptiveText THEN 8000
  ELSE IF metadata.patterns.hasDescriptiveText /\ metadata.patterns.hasDatePattern THEN 6000
  ELSE IF metadata.patterns.hasDescriptiveText THEN 5000
  ELSE 3000

calculateConfidence(metadata) ==
  IF metadata.patterns.isScreenshot /\ metadata.patterns.hasDatePattern THEN 9500
  ELSE IF ExifGps(metadata) /\ ExifDateTime(metadata) THEN 9000
  ELSE IF ExifDateTime(metadata) /\ metadata.patterns.hasDescriptiveText THEN 8000
  ELSE IF ExifDateTime(metadata) THEN 6500
  ELSE IF metadata.patterns.hasDescriptiveText /\ metadata.patterns.hasDatePattern THEN 6000
  ELSE IF metadata.patterns.hasDescriptiveText THEN 5000
  ELSE 3000

ConfidenceCalls == [fn : {"calculateConfidence"}, metadata : RichMetadata]

CallCalculateConfidence ==
  /\ ecall.fn = "calculateConfidence" /\ ~eret.done
  /\ eret' = [done |-> TRUE, value |-> calculateConfidence(ecall.metadata)]
  /\ UNCHANGED ecall

(***************************************************************************)
(* Calls of BatchGrouper.extractPattern and of applyPattern on its result  *)
(* (SmartPipeline.processBatch: pattern of the representative's name,      *)
(* applied to sibling i with its original name).                           *)
(***************************************************************************)
\* names a provider or the metadata stage can deliver: sequence numbers of
\* three and four digits and of two, dates written with '_', with '-' and
\* without separator, both at once, a name that holds the text [n], and
\* the empty name
GeneratedNames ==
  { <<>>,
    <<"b", "e", "a", "c", "h", "_", "s", "u", "n", "s", "e", "t", "_", "0", "0", "1">>,
    <<"a", "b", "_", "0", "0", "1", "2">>,
    <<"a", "b", "_", "0", "0", "2">>,
    <<"a", "b", "_", "0", "1">>,
    <<"a", "b">>,
    <<"2", "0", "2", "4", "_", "0", "1", "_", "1", "5", "_", "a", "b">>,
    <<"a", "b", "-", "2", "0", "2", "4", "-", "0", "1", "-", "1", "5", "-", "x">>,
    <<"a", "b", "2", "0", "2", "4", "0", "1", "1", "5", "x">>,
    <<"2", "0", "2", "4", "_", "0", "1", "_", "1", "5", "_", "0", "0", "1">>,
    <<"[", "n", "]", "_", "0", "0", "1">> }

\* similarFile.split('/').pop() || '': none, without and with a date
OriginalNames ==
  { <<>>,
    <<"I", "M", "G", "_", "0", "0", "2", ".", "j", "p", "g">>,
    <<"I", "M", "G", "-", "2", "0", "2", "4", "-", "0", "1", "-", "1", "5", ".", "j", "p", "g">> }

\* the sibling's index in group.similar
FileIndexes == {0, 1, 8, 98, 998}

ExtractCalls == [fn : {"extractPattern"}, generatedName : GeneratedNames]

\* new Date() at the time of the call, as YYYY_MM_DD
Days == {Today, <<"2", "0", "2", "6", "_", "1", "1", "_", "0", "5">>}

ApplyCalls ==
  [fn : {"applyPattern"}, generatedName : GeneratedNames, fileIndex : FileIndexes,
   originalName : OriginalNames, today : Days]

CallExtractPattern ==
  /\ ecall.fn = "extractPattern" /\ ~eret.done
  /\ eret' = [done |-> TRUE, value |-> extractPattern(ecall.generatedName)]
  /\ UNCHANGED ecall

CallApplyPattern ==
  /\ ecall.fn = "applyPattern" /\ ~eret.done
  /\ eret' = [done |-> TRUE,
              value |-> applyPattern(extractPattern(ecall.generatedName), ecall.fileIndex,
                                     ecall.originalName, ecall.today)]
  /\ UNCHANGED ecall

\* the names of one group that processBatch handles by pattern: the
\* representative's suggested name, then for sibling i the pattern of that
\* name applied with index i and the sibling's original name
MaxSiblings == 2

\* base names of files of one directory
SiblingOriginals ==
  { <<"I", "M", "G", "_", "0", "0", "2", ".", "j", "p", "g">>,
    <<"I", "M", "G", "_", "0", "0", "3", ".", "j", "p", "g">>,
    <<"I", "M", "G", "-", "2", "0", "2", "4", "-", "0", "1", "-", "1", "5", ".", "j", "p", "g">> }

SiblingLists ==
  {l \in UNION {[1..n -> SiblingOriginals] : n \in 1..MaxSiblings} :
     \A a, b \in 1..Len(l) : a # b => l[a] # l[b]}

PatternNameCalls ==
  [fn : {"patternNames"}, representativeName : GeneratedNames, originals : SiblingLists,
   today : Days]

patternNames(representativeName, originals, today) ==
  <<representativeName>> \o
    [i \in 1..Len(originals) |->
       applyPattern(extractPattern(representativeName), i - 1, originals[i], today)]

CallPatternNames ==
  /\ ecall.fn = "patternNames" /\ ~eret.done
  /\ eret' = [done |-> TRUE,
              value |-> patternNames(ecall.representativeName, ecall.originals,
                                     ecall.today)]
  /\ UNCHANGED ecall

(***************************************************************************)
(* Calls of BatchGrouper.group: extractFileMetadata and getBucketKey of    *)
(* every file, then the buckets.                                           *)
(***************************************************************************)
MaxGroupFiles == 3

\* typeMap[ext] || 'other'
getFileType(ext) ==
  CASE ext \in {".jpg", ".jpeg", ".png", ".gif", ".heic", ".webp"} -> "image"
    [] ext \in {".mp4", ".avi", ".mov", ".mkv"} -> "video"
    [] ext = ".pdf" -> "pdf"
    [] ext \in {".txt", ".md", ".docx"} -> "document"
    [] ext \in {".mp3", ".wav"} -> "audio"
    [] OTHER -> "other"

getSizeRange(bytes) ==
  IF bytes < 1024 * 1024 THEN "small"
  ELSE IF bytes < 10 * 1024 * 1024 THEN "medium"
  ELSE IF bytes < 100 * 1024 * 1024 THEN "large"
  ELSE "xlarge"

\* `${getFullYear()}-${pad2(getMonth() + 1)}-${pad2(getDate())}`
getDateRange(date) ==
  NumStr(date.year) \o <<"-">> \o PadStart(NumStr(date.month + 1), 2)
    \o <<"-">> \o PadStart(NumStr(date.date), 2)

\* what fs.stat and the path give for a file
extractFileMetadata(st) ==
  [type |-> getFileType(st.ext), sizeRange |-> getSizeRange(st.size),
   directory |-> st.directory, dateRange |-> getDateRange(st.mtime)]

\* `${type}|${sizeRange}|${directory}|${dateRange}`: the type, the size range
\* and the date range hold no '|', so the string determines the four parts
getBucketKey(metadata) ==
  <<metadata.type, metadata.sizeRange, metadata.directory, metadata.dateRange>>

\* two images below 1MB of one day (one bucket), an image of exactly 1MB of
\* that day, and an image of another day
FileStats ==
  { [ext |-> ".jpg", size |-> 500000, directory |-> "/in",
     mtime |-> [year |-> 2026, month |-> 10, date |-> 4]],
    [ext |-> ".png", size |-> 1048575, directory |-> "/in",
     mtime |-> [year |-> 2026, month |-> 10, date |-> 4]],
    [ext |-> ".jpg", size |-> 1048576, directory |-> "/in",
     mtime |-> [year |-> 2026, month |-> 10, date |-> 4]],
    [ext |-> ".jpg", size |-> 500000, directory |-> "/in",
     mtime |-> [year |-> 2026, month |-> 0, date |-> 14]] }

GroupFileLists == UNION {[1..n -> 1..MaxGroupFiles] : n \in 0..MaxGroupFiles}

GroupCalls ==
  [fn : {"group"}, files : GroupFileLists, stat : [1..MaxGroupFiles -> FileStats]]

CallGroup ==
  /\ ecall.fn = "group" /\ ~eret.done
  /\ eret' = [done |-> TRUE,
              value |-> group(ecall.files,
                              [f \in 1..MaxGroupFiles |->
                                 getBucketKey(extractFileMetadata(ecall.stat[f]))])]
  /\ UNCHANGED ecall

(***************************************************************************)
(* Calls of SmartPipeline.getStats                                         *)
(***************************************************************************)
MaxStatResults == 3

\* results as processFile and processBatch build them
StatResults ==
  { [stage |-> "metadata", confidence |-> 9500, tokensUsed |-> 0, cost |-> 0],
    [stage |-> "premium-model", confidence |-> 9000, tokensUsed |-> 200,
     cost |-> calculateCost(200, "gpt-5")],
    [stage |-> "premium-model", confidence |-> 5000, tokensUsed |-> 200,
     cost |-> calculateCost(200, "gpt-5")],
    [stage |-> "batch-pattern", confidence |-> 8550, tokensUsed |-> 20,
     cost |-> calculateCost(20, "gpt-5-mini")] }

NoStats ==
  [total |-> 0,
   byStage |-> [metadata |-> 0, cheapModel |-> 0, premiumModel |-> 0, batchPattern |-> 0],
   totalTokens |-> 0, totalCost |-> 0, averageConfidence |-> 0]

\* the if / else if chain on result.stage
countStageModelsOnly(byStage, stage) ==
  IF stage = "cheap-model" THEN [byStage EXCEPT !.cheapModel = @ + 1]
  ELSE IF stage = "premium-model" THEN [byStage EXCEPT !.premiumModel = @ + 1]
  ELSE byStage

countStage(byStage, stage) ==
  IF stage = "metadata" THEN [byStage EXCEPT !.metadata = @ + 1]
  ELSE IF stage = "cheap-model" THEN [byStage EXCEPT !.cheapModel = @ + 1]
  ELSE IF stage = "premium-model" THEN [byStage EXCEPT !.premiumModel = @ + 1]
  ELSE IF stage = "batch-pattern" THEN [byStage EXCEPT !.batchPattern = @ + 1]
  ELSE byStage

\* the for loop over results, from the given stats on
RECURSIVE accumulate(_, _)
accumulate(stats, results) ==
  IF results = <<>> THEN stats
  ELSE accumulate([stats EXCEPT !.byStage = countStage(@, Head(results).stage),
                                !.totalTokens = @ + Head(results).tokensUsed,
                                !.totalCost = @ + Head(results).cost,
                                !.averageConfidence = @ + Head(results).confidence],
                  Tail(results))

\* averageConfidence /= results.length is NaN for no results (nan), else the
\* mean in 1/10000
getStats(results) ==
  LET stats == accumulate([NoStats EXCEPT !.total = Len(results)], results)
  IN  [total |-> stats.total, byStage |-> stats.byStage,
       totalTokens |-> stats.totalTokens, totalCost |-> stats.totalCost,
       averageConfidence |->
         IF results = <<>> THEN [nan |-> TRUE, value |-> 0]
         ELSE [nan |-> FALSE, value |-> stats.averageConfidence \div Len(results)]]

StatCalls ==
  [fn : {"getStats"}, results : UNION {[1..n -> StatResults] : n \in 0..MaxStatResults}]

CallGetStats ==
  /\ ecall.fn = "getStats" /\ ~eret.done
  /\ eret' = [done |-> TRUE, value |-> getStats(ecall.results)]
  /\ UNCHANGED ecall

(***************************************************************************)
(* Calls of SmartPipeline.processFile on a file as the metadata extractor  *)
(* finds it: fs.stat, the EXIF read of an image, the name's patterns.      *)
(***************************************************************************)
\* exifr.parse: it throws, gives nothing, or gives tags (a date tag or not,
\* each GPS coordinate absent, 0 or another number)
ExifReads ==
  {x \in [kind : {"throws", "none", "data"}, date : BOOLEAN,
          latitude : {"absent", "zero", "value"}, longitude : {"absent", "zero", "value"}] :
     x.kind # "data" => (~x.date /\ x.latitude = "absent" /\ x.longitude = "absent")}

NoExifRead == [kind |-> "none", date |-> FALSE, latitude |-> "absent", longitude |-> "absent"]

NoExif == [present |-> FALSE, gps |-> FALSE, dateTime |-> FALSE]

\* extractExif: undefined when the read throws or gives nothing; else
\* dateTime when a date tag is there, gps when both coordinates are truthy
extractExif(read) ==
  IF read.kind # "data" THEN NoExif
  ELSE [present |-> TRUE,
        gps |-> read.latitude = "value" /\ read.longitude = "value",
        dateTime |-> read.date]

\* a file: whether fs.stat succeeds, whether its extension is an image's,
\* what the EXIF read gives (only images are read), the name's patterns
FileInputs ==
  {f \in [statOk : BOOLEAN, image : BOOLEAN, exif : ExifReads, patterns : Patterns] :
     ~f.image => f.exif = NoExifRead}

\* extractRichMetadata after a successful stat
extractRichMetadata(file) ==
  [patterns |-> file.patterns,
   exif |-> IF file.image THEN extractExif(file.exif) ELSE NoExif]

\* canNameFromMetadata: it throws when fs.stat does, else it scores
canNameFromMetadata(file) ==
  IF ~file.statOk THEN [throws |-> TRUE, confidence |-> 0]
  ELSE [throws |-> FALSE, confidence |-> calculateConfidence(extractRichMetadata(file))]

ProcessCalls ==
  [fn : {"processFile"}, file : FileInputs, cfg : PipelineConfigs,
   provider : ProviderOutcomes(1)]

CallProcessFile ==
  /\ ecall.fn = "processFile" /\ ~eret.done
  /\ eret' = [done |-> TRUE,
              value |-> processFile(1, ecall.cfg, canNameFromMetadata(ecall.file),
                                    ecall.provider)]
  /\ UNCHANGED ecall

(***************************************************************************)
(* Specification SpecClassify: one failure, classified.                    *)
(***************************************************************************)
RetryParked ==
  /\ maxRetries = 0 /\ attempt = 0 /\ rpc = "parked"
  /\ fnCalls = <<>> /\ fnOk = 0 /\ sleeps = <<>> /\ thrown = NoThrown

ClassifyParked == cin = NoFailure /\ cerr = NoTransformed /\ cout = NoError

ClassifyInit ==
  /\ cin \in Failures
  /\ cerr = NoTransformed
  /\ cout = NoError
  /\ RetryParked
  /\ PipeParked
  /\ CacheParked
  /\ BatchParked
  /\ FlightParked
  /\ EvalParked

\* executeRequest's catch: throw this.transformError(error)
ThrowTransformed ==
  /\ cin # NoFailure /\ cerr = NoTransformed
  /\ cerr' = transformError(cin)
  /\ UNCHANGED <<cin, cout>>
  /\ UNCHANGED <<retryVars, pipeVars, cacheVars, batchVars, flightVars, evalVars>>

\* the catch of executeWithRetry: this.handleError(error)
ClassifyThrown ==
  /\ cerr # NoTransformed /\ cout = NoError
  /\ cout' = handleError(cerr)
  /\ UNCHANGED <<cin, cerr>>
  /\ UNCHANGED <<retryVars, pipeVars, cacheVars, batchVars, flightVars, evalVars>>

ClassifyNext == ThrowTransformed \/ ClassifyThrown

SpecClassify == ClassifyInit /\ [][ClassifyNext]_vars

(***************************************************************************)
(* Specification SpecRetry: one call of executeWithRetry.                  *)
(***************************************************************************)
RetryStart == RetryInit /\ ClassifyParked /\ PipeParked /\ CacheParked /\ BatchParked
    /\ FlightParked /\ EvalParked

RetryNext ==
  \/ FnReturns /\ UNCHANGED <<classifyVars, pipeVars, cacheVars, batchVars, flightVars, evalVars>>
  \/ \E e \in RetryErrors, r \in RandomPerMille :
       FnThrows(e, r) /\ UNCHANGED <<classifyVars, pipeVars, cacheVars, batchVars, flightVars, evalVars>>
  \/ Wake /\ UNCHANGED <<classifyVars, pipeVars, cacheVars, batchVars, flightVars, evalVars>>

SpecRetry == RetryStart /\ [][RetryNext]_vars

(***************************************************************************)
(* Specification SpecPipeline: one call of processBatch.                   *)
(***************************************************************************)
PipeStart == PipeInit /\ ClassifyParked /\ RetryParked /\ CacheParked /\ BatchParked
    /\ FlightParked /\ EvalParked

PipeNext ==
  \/ GroupFiles /\ UNCHANGED <<classifyVars, retryVars, cacheVars, batchVars, flightVars, evalVars>>
  \/ ProcessRepresentative /\ UNCHANGED <<classifyVars, retryVars, cacheVars, batchVars, flightVars, evalVars>>
  \/ ProcessSibling /\ UNCHANGED <<classifyVars, retryVars, cacheVars, batchVars, flightVars, evalVars>>
  \/ ReturnResults /\ UNCHANGED <<classifyVars, retryVars, cacheVars, batchVars, flightVars, evalVars>>

SpecPipeline == PipeStart /\ [][PipeNext]_vars

(***************************************************************************)
(* Specification SpecCache: successive nameFile calls on one SDK instance, *)
(* with the files changing and time passing between the calls.             *)
(***************************************************************************)
CacheStart ==
  CacheInit /\ ClassifyParked /\ RetryParked /\ PipeParked /\ BatchParked
    /\ FlightParked /\ EvalParked

CacheNext ==
  \/ \E f \in CacheFiles \cup {MissingFile}, o \in OptionObjects :
       NameFile(f, o) /\ UNCHANGED <<disposed, classifyVars, retryVars, pipeVars, batchVars, flightVars, evalVars>>
  \/ \E f \in ChangingFiles :
       Touch(f) /\ UNCHANGED <<disposed, classifyVars, retryVars, pipeVars, batchVars, flightVars, evalVars>>
  \/ \E f \in ChangingFiles, c \in FileContents :
       Modify(f, c) /\ UNCHANGED <<disposed, classifyVars, retryVars, pipeVars, batchVars, flightVars, evalVars>>
  \/ Tick /\ UNCHANGED <<disposed, classifyVars, retryVars, pipeVars, batchVars, flightVars, evalVars>>

SpecCache == CacheStart /\ [][CacheNext]_vars

(***************************************************************************)
(* Specification SpecLru: many nameFile calls on one unchanged file with   *)
(* varying options, the cache enabled, and time passing between calls.     *)
(***************************************************************************)
MaxLruCalls == 4

LruStart == CacheStart /\ ccfg.enabled

LruNext ==
  \/ \E o \in OptionObjects :
       /\ ncalls < MaxLruCalls
       /\ NameFileCall(1, o)
       /\ disposed' = EvictedKey(cache, cache', last'.key)
       /\ UNCHANGED <<classifyVars, retryVars, pipeVars, batchVars, flightVars, evalVars>>
  \/ Tick /\ UNCHANGED <<disposed, classifyVars, retryVars, pipeVars, batchVars, flightVars, evalVars>>

SpecLru == LruStart /\ [][LruNext]_vars

(***************************************************************************)
(* Specification SpecBatch: one call of nameBatch, and its tasks.          *)
(***************************************************************************)
BatchStart ==
  BatchInit /\ ClassifyParked /\ RetryParked /\ PipeParked /\ CacheParked
    /\ FlightParked /\ EvalParked

BatchNext ==
  \/ StartTask /\ UNCHANGED <<classifyVars, retryVars, pipeVars, cacheVars, flightVars, evalVars>>
  \/ \E i \in 1..MaxBatchFiles, outcome \in NameFileOutcomes :
       FinishTask(i, outcome) /\ UNCHANGED <<classifyVars, retryVars, pipeVars, cacheVars, flightVars, evalVars>>
  \/ \E i \in 1..MaxBatchFiles :
       SuspendTask(i) /\ UNCHANGED <<classifyVars, retryVars, pipeVars, cacheVars, flightVars, evalVars>>
  \/ \E i \in 1..MaxBatchFiles :
       WakeTask(i) /\ UNCHANGED <<classifyVars, retryVars, pipeVars, cacheVars, flightVars, evalVars>>
  \/ ReturnBatch /\ UNCHANGED <<classifyVars, retryVars, pipeVars, cacheVars, flightVars, evalVars>>

SpecBatch == BatchStart /\ [][BatchNext]_vars

(***************************************************************************)
(* Specification SpecFlight: concurrent nameFile calls, cancellation and   *)
(* the provider's metrics.                                                 *)
(***************************************************************************)
\* the errors an attempt fails with: one retryable, one not
FlightErrors ==
  { [isError |-> TRUE, message |-> <<"connect", "ETIMEDOUT">>],
    [isError |-> TRUE, message |-> <<"Internal", "server", "error">>] }

FlightStart ==
  FlightInit /\ ClassifyParked /\ RetryParked /\ PipeParked /\ CacheParked /\ BatchParked
    /\ EvalParked

FlightRest == <<classifyVars, retryVars, pipeVars, cacheVars, batchVars, evalVars>>

FlightNext ==
  \/ \E r \in Requests : EnterNameFile(r) /\ UNCHANGED FlightRest
  \/ \E r \in Requests, how \in {"threw", "returned"} :
       SettleEarly(r, how) /\ UNCHANGED FlightRest
  \/ \E r \in Requests : EnterGenerateName(r) /\ UNCHANGED FlightRest
  \/ \E r \in Requests : AttemptSucceeds(r) /\ UNCHANGED FlightRest
  \/ \E r \in Requests, e \in FlightErrors : AttemptFails(r, e) /\ UNCHANGED FlightRest
  \/ \E r \in Requests : RetryAttempt(r) /\ UNCHANGED FlightRest
  \/ \E r \in Requests : CancelRequest(r) /\ UNCHANGED FlightRest
  \/ CancelAllRequests /\ UNCHANGED FlightRest
  \/ \E r \in Requests : SignalAborts(r) /\ UNCHANGED FlightRest
  \/ ResetMetrics /\ UNCHANGED FlightRest

SpecFlight == FlightStart /\ [][FlightNext]_vars

(***************************************************************************)
(* Specification SpecEval: one call of a function of the metadata          *)
(* extractor, the batch grouper or the pipeline statistics.                *)
(***************************************************************************)
EvalInit ==
  /\ \/ ecall \in ConfidenceCalls
     \/ ecall \in ExtractCalls
     \/ ecall \in ApplyCalls
     \/ ecall \in GroupCalls
     \/ ecall \in StatCalls
     \/ ecall \in ProcessCalls
     \/ ecall \in PatternNameCalls
  /\ eret = NoReturn

EvalStart ==
  EvalInit /\ ClassifyParked /\ RetryParked /\ PipeParked /\ CacheParked /\ BatchParked
    /\ FlightParked

EvalRest == <<classifyVars, retryVars, pipeVars, cacheVars, batchVars, flightVars>>

EvalNext ==
  \/ CallCalculateConfidence /\ UNCHANGED EvalRest
  \/ CallExtractPattern /\ UNCHANGED EvalRest
  \/ CallApplyPattern /\ UNCHANGED EvalRest
  \/ CallGroup /\ UNCHANGED EvalRest
  \/ CallGetStats /\ UNCHANGED EvalRest
  \/ CallProcessFile /\ UNCHANGED EvalRest
  \/ CallPatternNames /\ UNCHANGED EvalRest

SpecEval == EvalStart /\ [][EvalNext]_vars

(***************************************************************************)
(* Properties of SpecPipeline.                                             *)
(***************************************************************************)
StageRank(st) ==
  CASE st = "metadata" -> 1 [] st = "cheap-model" -> 2 [] st = "premium-model" -> 3
    [] OTHER -> 0

StagesInOrder(stages) ==
  /\ \A i \in 1..Len(stages) : StageRank(stages[i]) > 0
  /\ \A i \in 1..(Len(stages) - 1) : StageRank(stages[i]) < StageRank(stages[i + 1])

\* the metadata score of the last run reaches the configured threshold
LastMetaSufficient ==
  /\ pcfg.enableMetadataStage
  /\ ~plast.meta.throws
  /\ plast.meta.confidence >= pcfg.metadata

C2_PremiumFailureSurfaces ==
  plast.prov.kind \in {"errorResponse", "throws"} => plast.error = "provider"

ResultIndexes(f) == {k \in 1..Len(presults) : presults[k].originalName = f}

HasResult(f) == ResultIndexes(f) # {}

ResultOf(f) == presults[CHOOSE k \in ResultIndexes(f) : TRUE]

SeqRange(q) == {q[i] : i \in 1..Len(q)}

\* the groups whose loop iteration is over
HandledGroups == {gi \in 1..Len(pgroups) : gi < pgi /\ Len(pgroups[gi].similar) > 0}

NamedByPattern(f) ==
  /\ HasResult(f)
  /\ ResultOf(f).stage = "batch-pattern"
  /\ pcalls[f] = 0
  /\ pruns[f] = 0

RunIndividually(f) ==
  /\ pruns[f] = 1
  /\ HasResult(f)
  /\ ResultOf(f).stage # "batch-pattern"

C4_EveryFileEnumerated ==
  /\ ppc # "rejected"
  /\ ppc = "done" =>
       /\ Len(presults) = Len(pfiles)
       /\ \A i \in 1..Len(pfiles) : Cardinality(ResultIndexes(pfiles[i])) = 1
       /\ \A gi \in 1..Len(pgroups) : pruns[pgroups[gi].representative] = 1

(***************************************************************************)
(* Properties of SpecRetry.                                                *)
(***************************************************************************)
RECURSIVE TotalWait(_)
TotalWait(sl) == IF sl = <<>> THEN 0 ELSE Head(sl).total + TotalWait(Tail(sl))

\* every call of fn() so far failed with an error classified retryable
OnlyRetryableFailures ==
  /\ fnOk = 0
  /\ \A i \in 1..Len(fnCalls) : handleError(fnCalls[i]).retryable

\* C6: when every attempt fails with a retryable error, executeWithRetry makes
\* maxRetries + 1 calls and sleeps maxRetries times, the k-th sleep lasting
\* min(1000 * 2^(k-1), 10000) ms plus at most 30% of it, and then throws the
\* last error; with maxRetries = 3 the sleeps add up to at most 9100 ms.
C6_PersistentRetryableFailure ==
  OnlyRetryableFailures =>
    /\ Len(fnCalls) <= maxRetries + 1
    /\ (rpc = "thrown") = (Len(fnCalls) = maxRetries + 1)
    /\ Len(sleeps) = (IF rpc = "thrown" THEN maxRetries ELSE Len(fnCalls))
    /\ \A k \in 1..Len(sleeps) :
         /\ sleeps[k].base = Min(1000 * 2 ^ (k - 1), 10000)
         /\ sleeps[k].total >= sleeps[k].base
         /\ (sleeps[k].total - sleeps[k].base) * 10 <= 3 * sleeps[k].base
    /\ rpc = "thrown" =>
         /\ thrown = LastError(fnCalls[Len(fnCalls)], Len(fnCalls))
         /\ maxRetries = 3 => (Len(sleeps) = 3 /\ TotalWait(sleeps) <= 9100)

\* four failed calls and three sleeps with maxRetries = 3, the jitter near 30%
C6_Witness ==
  /\ OnlyRetryableFailures
  /\ maxRetries = 3
  /\ rpc = "thrown"
  /\ Len(fnCalls) = 4
  /\ TotalWait(sleeps) > 9000

\* C7: an attempt that fails with a non-retryable error is the last one: no
\* sleep and no call follows it, whatever failed before it, and its error is
\* the one thrown.
C7_NonRetryableStopsAtOnce ==
  \A i \in 1..Len(fnCalls) :
    ~handleError(fnCalls[i]).retryable =>
      /\ i = Len(fnCalls)
      /\ Len(sleeps) = i - 1
      /\ rpc = "thrown"
      /\ thrown = LastError(fnCalls[i], i)

\* two retryable failures, then a non-retryable one with retries still left
C7_Witness ==
  /\ Len(fnCalls) = 3
  /\ maxRetries >= 4
  /\ handleError(fnCalls[1]).retryable
  /\ handleError(fnCalls[2]).retryable
  /\ ~handleError(fnCalls[3]).retryable
  /\ rpc = "thrown"

(***************************************************************************)
(* Properties of SpecClassify.                                             *)
(***************************************************************************)
MentionsAny(f, pats) ==
  \E pat \in pats : Includes(f.body, pat) \/ Includes(f.message, pat)

RateLimitSignal(f) ==
  \/ f.kind = "http" /\ f.status = 429
  \/ MentionsAny(f, {<<"rate", "limit">>, <<"Rate", "limit">>})

AuthSignal(f) ==
  \/ f.kind = "http" /\ f.status \in {401, 403}
  \/ MentionsAny(f, {<<"unauthorized">>})

NetworkSignal(f) ==
  \/ f.cause \in {"network", "timeout"}
  \/ MentionsAny(f, {<<"ECONNREFUSED">>, <<"ETIMEDOUT">>, <<"network">>})

\* C8: a failure that signals rate limiting (HTTP 429, or a rate-limit message)
\* is classified RATE_LIMIT and retryable; an auth failure (401, 403) is
\* non-retryable; a network or timeout failure is retryable; every other
\* failure is non-retryable.
C8_Classification ==
  cout # NoError =>
    IF RateLimitSignal(cin) THEN cout.code = "RATE_LIMIT" /\ cout.retryable
    ELSE IF AuthSignal(cin) THEN ~cout.retryable
    ELSE IF NetworkSignal(cin) THEN cout.retryable
    ELSE ~cout.retryable

(***************************************************************************)
(* FileNamingSDK.nameFile and the cache (SpecCache).                       *)
(***************************************************************************)
\* C9: with the cache enabled, a nameFile call that follows a call on the same
\* file, unchanged, with identical options, within the TTL, returns the
\* identical response and makes no provider call.
C9_RepeatIsServedFromCache ==
  [][(/\ ncalls' = ncalls + 1
      /\ ccfg.enabled
      /\ Repeats(last, last'.file, last'.opts, disk, now, ccfg))
     => (/\ last'.outcome = "returned"
         /\ last'.response = last.response
         /\ last'.calls = 0)]_vars

\* a second call has repeated the first after time has passed, and was
\* served a name from the cache
C9_Witness ==
  /\ ccfg.enabled /\ ncalls = 2
  /\ last.again /\ last.hit /\ last.calls = 0
  /\ last.at > 0 /\ last.response.error = "none"

\* the two options objects have the same defined properties, in any order
SameOptions(a, b) ==
  {a[i] : i \in {j \in 1..Len(a) : a[j].t # "undefined"}}
    = {b[i] : i \in {j \in 1..Len(b) : b[j].t # "undefined"}}

\* C10: between the first two calls on a file, a change of the file's size or
\* modify-time, or of an option value, makes the second call a cache miss;
\* and with the file unchanged, options objects that are equal up to property
\* order give the same cache key.
C10_KeyIsSizeMtimeAndOptions ==
  [][(/\ ncalls = 1 /\ ncalls' = 2
      /\ last.outcome = "returned" /\ last'.outcome = "returned"
      /\ last'.file = last.file)
     => (/\ (\/ Size(last'.snapshot) # Size(last.snapshot)
             \/ last'.snapshot.mtime # last.snapshot.mtime
             \/ ~SameOptions(last.opts, last'.opts)) => ~last'.hit
         /\ (last'.snapshot = last.snapshot /\ SameOptions(last.opts, last'.opts))
              => last'.key = last.key)]_vars

(***************************************************************************)
(* FileNamingSDK.nameBatch (SpecBatch).                                    *)
(***************************************************************************)
\* the files with an entry in the sequence of responses
Entered(entries) == {entries[k].originalName : k \in 1..Len(entries)}

\* C5: when nameBatch has returned and fail-fast was not requested, every file
\* whose nameFile call threw has its entry in failed, and every file of the
\* batch has been processed and is in the result (successful or failed).
C5_FailureDoesNotStopTheBatch ==
  (bpc = "returned" /\ bopts.continueOnError # "false") =>
    /\ \A i \in 1..Len(bfiles) : btask[i] = "threw" => bfiles[i] \in Entered(berrors)
    /\ \A i \in 1..Len(bfiles) : bfiles[i] \in Entered(bresults) \cup Entered(berrors)
    /\ bret.totalProcessed = Len(bfiles)

C12_CancelStopsAttempts ==
  [][/\ \A r \in Requests : freq[r].aborted => freq'[r].attempts = freq[r].attempts
     /\ (Cardinality(fctl) >= 2 /\ fctl' = {}) => \A r \in fctl : freq'[r].aborted]_vars

\* C19: in every state successfulRequests + failedRequests <= totalRequests,
\* with equality whenever no generateName call is in flight.
C19_SettledNeverExceedTotal ==
  /\ fmetrics.successfulRequests + fmetrics.failedRequests <= fmetrics.totalRequests
  /\ InProvider = {} =>
       fmetrics.successfulRequests + fmetrics.failedRequests = fmetrics.totalRequests

C14_Rules(m) ==
  << <<m.patterns.isScreenshot /\ m.patterns.hasDatePattern, 9500>>,
     <<ExifGps(m) /\ ExifDateTime(m), 9000>>,
     <<ExifDateTime(m) /\ m.patterns.hasDescriptiveText, 8000>>,
     <<ExifDateTime(m), 6500>>,
     <<m.patterns.hasDescriptiveText /\ m.patterns.hasDatePattern, 6000>>,
     <<m.patterns.hasDescriptiveText, 5000>>,
     <<TRUE, 3000>> >>

C14_FirstMatch(rules) ==
  rules[CHOOSE i \in 1..Len(rules) :
          rules[i][1] /\ \A j \in 1..(i - 1) : ~rules[j][1]][2]

\* C14: calculateConfidence returns the value of the first rule that matches,
\* in the order screenshot + date 0.95, GPS + EXIF date 0.90, EXIF date +
\* descriptive 0.80, EXIF date 0.65, descriptive + date pattern 0.60,
\* descriptive 0.50, otherwise 0.30.
C14_FirstMatchingRule ==
  (ecall.fn = "calculateConfidence" /\ eret.done) =>
    eret.value = C14_FirstMatch(C14_Rules(ecall.metadata))

\* a file with EXIF date, GPS and a descriptive name that is no screenshot:
\* three rules match and the first of them gives 0.90
C14_Witness ==
  /\ ecall.fn = "calculateConfidence" /\ eret.done
  /\ ExifGps(ecall.metadata) /\ ExifDateTime(ecall.metadata)
  /\ ecall.metadata.patterns.hasDescriptiveText
  /\ ~ecall.metadata.patterns.isScreenshot
  /\ eret.value = 9000

\* the first place where a date YYYY[-_]?MM[-_]?DD starts, 0 when there is none
C15_DateStart(s) ==
  IF \E i \in 1..Len(s) : DateMatchAt(s, i) # <<>>
  THEN CHOOSE i \in 1..Len(s) :
         DateMatchAt(s, i) # <<>> /\ \A h \in 1..(i - 1) : DateMatchAt(s, h) = <<>>
  ELSE 0

\* the length of the date that starts at i: eight digits and its separators
C15_DateLen(s, i) ==
  LET m == IF IsSep(s, i + 4) THEN i + 5 ELSE i + 4
      d == IF IsSep(s, m + 2) THEN m + 3 ELSE m + 2
  IN  d + 2 - i

C15_Pattern(name) ==
  LET k == TrailingDigits(name)
      i == C15_DateStart(name)
  IN  IF k >= 3 THEN SubSeq(name, 1, Len(name) - k) \o PlaceholderN
      ELSE IF i # 0
      THEN SubSeq(name, 1, i - 1) \o PlaceholderDate
             \o SubSeq(name, i + C15_DateLen(name, i), Len(name))
      ELSE name \o <<"_">> \o PlaceholderN

\* C15: extractPattern replaces a trailing run of at least 3 digits by [n];
\* otherwise an embedded date YYYY[-_]?MM[-_]?DD (separator '-', '_' or none)
\* by [date]; otherwise it appends _[n].
C15_ExtractPatternRules ==
  (ecall.fn = "extractPattern" /\ eret.done /\ ecall.generatedName # <<>>) =>
    eret.value = C15_Pattern(ecall.generatedName)

\* C16: for a name that is a prefix followed by a trailing run of at least 3
\* digits and every sibling index i, applyPattern(extractPattern(name), i,
\* original) is the prefix followed by i + 2 zero-padded to at least 3 digits.
C16_SequenceNumberRoundTrip ==
  (/\ ecall.fn = "applyPattern" /\ eret.done
   /\ TrailingDigits(ecall.generatedName) >= 3) =>
    eret.value =
      SubSeq(ecall.generatedName, 1,
             Len(ecall.generatedName) - TrailingDigits(ecall.generatedName))
        \o PadStart(NumStr(ecall.fileIndex + 2), 3)

\* the bucket of a file: type class, size bucket, directory, modify day
C17_Bucket(f) ==
  LET st == ecall.stat[f]
  IN  <<getFileType(st.ext), getSizeRange(st.size), st.directory,
        st.mtime.year, st.mtime.month, st.mtime.date>>

C17_Members(g) == <<g.representative>> \o g.similar

C17_FirstIndex(f) ==
  CHOOSE i \in 1..Len(ecall.files) :
    ecall.files[i] = f /\ \A h \in 1..(i - 1) : ecall.files[h] # f

\* the files of the input that are in the bucket of f, in input order
C17_BucketOf(f) ==
  LET InBucket(x) == C17_Bucket(x) = C17_Bucket(f)
  IN  SelectSeq(ecall.files, InBucket)

C18_Count(results, stage) ==
  Cardinality({i \in 1..Len(results) : results[i].stage = stage})

\* the results in another order
C18_Reordered(results, perm) == [i \in 1..Len(results) |-> results[perm[i]]]

C21_ScoringFailureFallsThrough ==
  (ecall.fn = "processFile" /\ eret.done) =>
    LET run == eret.value
        file == ecall.file
    IN  /\ ~file.statOk =>
             /\ run.stages[Len(run.stages)] = "premium-model"
             /\ run.calls = 1
             /\ run.outcome = "throws" => ecall.provider.kind = "throws"
             /\ run.outcome = "result" => run.result.stage = "premium-model"
        /\ (file.statOk /\ file.image /\ file.exif.kind \in {"throws", "none"}) =>
             /\ ~run.meta.throws
             /\ run = processFile(1, ecall.cfg,
                                  [throws |-> FALSE,
                                   confidence |->
                                     calculateConfidence([patterns |-> file.patterns,
                                                          exif |-> NoExif])],
                                  ecall.provider)

\* the stat of a file fails with the metadata stage enabled, and the
\* premium stage names the file
C21_Witness ==
  /\ ecall.fn = "processFile" /\ eret.done
  /\ ecall.cfg.enableMetadataStage /\ ~ecall.file.statOk
  /\ eret.value.outcome = "result"
  /\ eret.value.result.stage = "premium-model"
  /\ eret.value.stages[1] = "metadata"

(***************************************************************************)
(* Further properties of SpecPipeline.                                     *)
(***************************************************************************)
\* C22: every result of processFile and processBatch has a confidence in
\* [0, 1]; a result of stage batch-pattern occurs only in a group whose
\* representative's confidence is above 0.7, and its confidence is 0.95
\* times the representative's.
C22_ConfidenceRangeAndPatternShare ==
  \A k \in 1..Len(presults) :
    LET r == presults[k]
    IN  /\ r.confidence \in 0..10000
        /\ r.stage = "batch-pattern" =>
             \E g \in 1..Len(pgroups), j \in 1..(k - 1) :
               /\ \E i \in 1..Len(pgroups[g].similar) : pgroups[g].similar[i] = r.originalName
               /\ presults[j].originalName = pgroups[g].representative
               /\ presults[j].stage # "batch-pattern"
               /\ presults[j].confidence > 7000
               /\ r.confidence * 100 = presults[j].confidence * 95

\* two siblings named by pattern after a representative the metadata stage
\* named with confidence 0.8
C22_Witness ==
  /\ ppc = "done" /\ Len(presults) = 3
  /\ presults[1].stage = "metadata" /\ presults[1].confidence = 8000
  /\ presults[2].stage = "batch-pattern" /\ presults[2].confidence = 7600
  /\ presults[3].stage = "batch-pattern"

(***************************************************************************)
(* Further properties of SpecEval.                                         *)
(***************************************************************************)
\* C23: extractPattern and applyPattern are pure and deterministic: a call
\* returns the same string for the same arguments whenever it runs, with no
\* dependence on the clock.
C23_SameArgumentsSameString ==
  (ecall.fn = "applyPattern" /\ eret.done) =>
    \A day \in Days :
      eret.value = applyPattern(extractPattern(ecall.generatedName), ecall.fileIndex,
                                ecall.originalName, day)

(***************************************************************************)
(* Further properties of SpecBatch.                                        *)
(***************************************************************************)
\* C24: nameBatch returns (and emits BatchComplete) only after every file of
\* the batch has settled: the returned totals satisfy totalProcessed =
\* totalSuccess + totalFailed = number of input files, BatchProgress counts
\* processed up by one each time, and no BatchProgress follows BatchComplete.
C24_CompleteAfterEveryFile ==
  [][/\ bpc' = "returned" =>
          /\ \A i \in 1..Len(bfiles) : btask'[i] \in NameFileOutcomes
          /\ bret'.totalProcessed = bret'.totalSuccess + bret'.totalFailed
          /\ bret'.totalProcessed = Len(bfiles)
     /\ bprocessed' \in {bprocessed, bprocessed + 1}
     /\ bpc = "returned" => bprocessed' = bprocessed]_vars

(***************************************************************************)
(* Further properties of SpecEval: the statistics.                         *)
(***************************************************************************)
\* C25: getStats returns a well-defined averageConfidence in [0, 1] for every
\* result list, the empty list included, for which total, totalTokens and
\* totalCost are 0.
C25_AverageConfidenceIsDefined ==
  (ecall.fn = "getStats" /\ eret.done) =>
    /\ ~eret.value.averageConfidence.nan
    /\ eret.value.averageConfidence.value \in 0..10000
    /\ ecall.results = <<>> =>
         /\ eret.value.total = 0
         /\ eret.value.totalTokens = 0
         /\ eret.value.totalCost = 0

\* C26: within one group that processBatch handles by pattern substitution,
\* the suggested names of the representative and of all its siblings are
\* pairwise distinct.
C26_GroupNamesAreDistinct ==
  (ecall.fn = "patternNames" /\ eret.done) =>
    \A a, b \in 1..Len(eret.value) : a # b => eret.value[a] # eret.value[b]

(***************************************************************************)
(* Further properties of SpecCache.                                        *)
(***************************************************************************)
\* C27: nameFile never stores in the cache a response that carries an error:
\* after a provider failure for a file, the next nameFile call for the same
\* file and options invokes the provider again.
C27_FailuresAreNotCached ==
  [][ncalls' = ncalls + 1 =>
       /\ \A i \in 1..Len(cache') : cache'[i].value.error = "none"
       /\ (/\ last.outcome = "returned" /\ last.calls = 1
           /\ last.response.error # "none"
           /\ last'.outcome = "returned"
           /\ last'.file = last.file /\ last'.opts = last.opts)
            => last'.calls = 1]_vars

\* C28: a response that nameFile returns from the cache belongs to the
\* requested file: its originalName is the base name of the file passed to
\* that call.
C28_CachedResponseIsTheFilesOwn ==
  (last.outcome = "returned" /\ last.hit) =>
    last.response.originalName = BaseName(last.file)

(***************************************************************************)
(* Properties of SpecFlight: events and tracked controllers.               *)
(***************************************************************************)
\* the calls that have returned or thrown
Settled == {r \in Requests : freq[r].pc \in {"returned", "threw"}}

\* C29: every nameFile call emits NamingStart exactly once and afterwards
\* exactly one of NamingComplete (when it returns a response) or NamingError
\* (when it throws), on every path including cache hits.
C29_StartThenOneOutcome ==
  \A r \in Settled :
    LET outcomes == SelectSeq(freq[r].events,
                              LAMBDA e : e \in {"NamingComplete", "NamingError"})
    IN  /\ Len(SelectSeq(freq[r].events, LAMBDA e : e = "NamingStart")) = 1
        /\ Head(freq[r].events) = "NamingStart"
        /\ outcomes = IF freq[r].pc = "returned" THEN <<"NamingComplete">>
                      ELSE <<"NamingError">>

\* C30: every nameFile call registers its abort controller on entry and it
\* is removed when the call settles (success, failure, cache hit or
\* cancellation): only calls in flight have a tracked controller, so with no
\* call in flight none is tracked; cancelAllRequests returns the number of
\* controllers tracked when it is called and leaves none tracked.
C30_Step ==
  /\ \A r \in Requests : (freq[r].pc = "idle" /\ freq'[r].pc # "idle") => r \in fctl'
  /\ fcount'.done => (fcount'.value = Cardinality(fctl) /\ fctl' = {})

C30_ControllersTrackedOnlyInFlight ==
  /\ [](fctl \subseteq InFlight)
  /\ [][C30_Step]_vars

\* a call has returned from a cache hit, and then cancelAllRequests has
\* returned the number of the calls still tracked
C30_Witness ==
  /\ fcount.done /\ fcount.value >= 1 /\ fctl = {}
  /\ \E r \in Requests : freq[r].pc = "returned" /\ freq[r].attempts = 0

====
